---- MODULE Spec2Model ----
(***************************************************************************)
(* A model of src/Time_Series_Fetch.py: class TimeSeriesBookScraper.        *)
(*                                                                         *)
(* A Python str is a sequence of one-character strings, so that lower(),   *)
(* split(), strip(), the `in` substring test, re.sub and re.findall are    *)
(* computed character by character as the interpreter computes them.       *)
(* A relevance score is kept in hundredths (0.3 is 30): every weight of    *)
(* the keyword table is a multiple of 0.1, and the sums that land on a     *)
(* threshold (1.0 and 3.0) are sums of binary fractions, so the float      *)
(* comparisons of the source agree with the integer ones.                  *)
(***************************************************************************)
EXTENDS Integers, Sequences, FiniteSets, TLC

VARIABLES
    call,      \* the last direct call of a pure method: its name, arguments, result
    pc,        \* position of the running search_* / _parse_*_response call
    source,    \* which source's parser runs
    payload,   \* the top-level response handed to the parser
    idx,       \* index of the next candidate of the for loop
    books,     \* the parser's local list `books`
    trace,     \* what each iteration so far did: skipped, rejected, accepted
    warnings,  \* st.warning calls made by the per-candidate handlers
    errors,    \* st.error calls made by the top-level handlers
    result,    \* what search_* returned to its caller
    store,     \* rows of table books of timeseries_books.db, in rowid order
    batch      \* the argument of the last save_to_database call

vars == <<call, pc, source, payload, idx, books, trace, warnings, errors, result, store, batch>>

-----------------------------------------------------------------------------
(* Characters and the str methods the source uses.                         *)

LowerLetters == <<"a","b","c","d","e","f","g","h","i","j","k","l","m","n","o","p","q","r","s","t","u","v","w","x","y","z">>

UpperLetters == <<"A","B","C","D","E","F","G","H","I","J","K","L","M","N","O","P","Q","R","S","T","U","V","W","X","Y","Z">>

DigitChars == <<"0","1","2","3","4","5","6","7","8","9">>

Range(s) == {s[i] : i \in DOMAIN s}

IsLower(c) == c \in Range(LowerLetters)

IsUpper(c) == c \in Range(UpperLetters)

\* [a-zA-Z] of the two regular expressions
IsAsciiAlpha(c) == IsLower(c) \/ IsUpper(c)

IsDigit(c) == c \in Range(DigitChars)

\* \w of module re on the characters modelled here
IsWordChar(c) == IsAsciiAlpha(c) \/ IsDigit(c) \/ c = "_"

\* what str.split() and str.strip() take for whitespace
IsSpace(c) == c \in {" ", "\t", "\n"}

LowerChar(c) ==
    IF IsUpper(c)
    THEN LowerLetters[CHOOSE i \in DOMAIN UpperLetters : UpperLetters[i] = c]
    ELSE c

\* str.lower()
lower(s) == [i \in DOMAIN s |-> LowerChar(s[i])]

\* needle in text
Contains(needle, text) ==
    \E i \in 1..(Len(text) - Len(needle) + 1) :
        SubSeq(text, i, i + Len(needle) - 1) = needle

\* any(keyword in text for keyword in keywords)
AnyIn(keywords, text) == \E k \in DOMAIN keywords : Contains(keywords[k], text)

RECURSIVE lstrip(_)
lstrip(s) == IF s # <<>> /\ IsSpace(Head(s)) THEN lstrip(Tail(s)) ELSE s

RECURSIVE rstrip(_)
rstrip(s) ==
    IF s # <<>> /\ IsSpace(s[Len(s)]) THEN rstrip(SubSeq(s, 1, Len(s) - 1)) ELSE s

\* str.strip()
strip(s) == rstrip(lstrip(s))

NotSpace(c) == ~IsSpace(c)

\* Maximal runs of non-whitespace characters (wordRuns FALSE) or of \w
\* characters (wordRuns TRUE), in order: acc is the run being read.
RECURSIVE Runs(_, _, _)
Runs(s, acc, wordRuns) ==
    LET keep == IF wordRuns THEN IsWordChar(Head(s)) ELSE NotSpace(Head(s))
        done == IF acc = <<>> THEN <<>> ELSE <<acc>>
    IN  IF s = <<>> THEN done
        ELSE IF keep THEN Runs(Tail(s), Append(acc, Head(s)), wordRuns)
        ELSE done \o Runs(Tail(s), <<>>, wordRuns)

\* str.split() with no argument: the whitespace-delimited tokens
split(s) == Runs(s, <<>>, FALSE)

\* sep.join(parts)
RECURSIVE join(_, _)
join(sep, parts) ==
    IF parts = <<>> THEN <<>>
    ELSE IF Len(parts) = 1 THEN parts[1]
    ELSE parts[1] \o sep \o join(sep, Tail(parts))

\* s.split(sep) with a separator: the pieces between the occurrences of sep,
\* read from the left.
RECURSIVE split_on(_, _, _)
split_on(sep, s, acc) ==
    IF s = <<>> THEN <<acc>>
    ELSE IF Len(s) >= Len(sep) /\ SubSeq(s, 1, Len(sep)) = sep
    THEN <<acc>> \o split_on(sep, SubSeq(s, Len(sep) + 1, Len(s)), <<>>)
    ELSE split_on(sep, Tail(s), Append(acc, Head(s)))

\* f"{a} {b}"
Fmt2(a, b) == a \o <<" ">> \o b

RECURSIVE NatToStr(_)
NatToStr(n) ==
    IF n < 10 THEN <<DigitChars[n + 1]>>
    ELSE NatToStr(n \div 10) \o <<DigitChars[(n % 10) + 1]>>

\* str(n) of an int
IntToStr(n) == IF n < 0 THEN <<"-">> \o NatToStr(0 - n) ELSE NatToStr(n)

DigitValue(c) == (CHOOSE i \in DOMAIN DigitChars : DigitChars[i] = c) - 1

RECURSIVE DigitsValue(_, _)
DigitsValue(s, acc) ==
    IF s = <<>> THEN acc ELSE DigitsValue(Tail(s), 10 * acc + DigitValue(Head(s)))

\* str.isdigit(): non-empty and every character a digit
isdigit(s) == s # <<>> /\ \A i \in DOMAIN s : IsDigit(s[i])

-----------------------------------------------------------------------------
(* Python values of the loosely typed response fields: ty is the type's    *)
(* name, i the value of an int, s the characters of a str, l the items of  *)
(* a list.                                                                 *)

None == [ty |-> "NoneType", i |-> 0, s |-> <<>>, l |-> <<>>]

PyInt(n) == [ty |-> "int", i |-> n, s |-> <<>>, l |-> <<>>]

PyStr(chars) == [ty |-> "str", i |-> 0, s |-> chars, l |-> <<>>]

PyList(items) == [ty |-> "list", i |-> 0, s |-> <<>>, l |-> items]

\* A float with an integral value, as pandas holds an integer of a column
\* that also holds a missing value.
PyFloat(n) == [ty |-> "float", i |-> n, s |-> <<>>, l |-> <<>>]

\* float('nan'), the missing value of a float64 column
NaN == [ty |-> "float", i |-> 0, s |-> <<"n","a","n">>, l |-> <<>>]

\* pd.notna(v) of a scalar
notna(v) == v.ty # "NoneType" /\ v # NaN

\* bool(v)
Truthy(v) ==
    CASE v.ty = "NoneType" -> FALSE
      [] v.ty = "int" -> v.i # 0
      [] v.ty = "str" -> v.s # <<>>
      [] v.ty = "list" -> v.l # <<>>

\* str(v), for the types that reach it
str(v) ==
    CASE v.ty = "int" -> IntToStr(v.i)
      [] v.ty = "str" -> v.s
      [] v.ty = "float" -> IF v = NaN THEN <<"n","a","n">> ELSE IntToStr(v.i) \o <<".","0">>
      [] v.ty = "NoneType" -> <<"N","o","n","e">>

\* The outcome of an expression that may raise: exc is "" after a normal
\* evaluation, and then val is the value.
Returns(v) == [exc |-> "", val |-> v]

Raises(e) == [exc |-> e, val |-> None]

\* int(chars) of a str: surrounding whitespace, one sign, digits with single
\* underscores between them; anything else raises ValueError.
int_str(chars) ==
    LET t == strip(chars)
        signed == t # <<>> /\ t[1] \in {"+", "-"}
        u == IF signed THEN Tail(t) ELSE t
        wellFormed ==
            /\ u # <<>>
            /\ \A k \in DOMAIN u : IsDigit(u[k]) \/ u[k] = "_"
            /\ IsDigit(u[1]) /\ IsDigit(u[Len(u)])
            /\ \A k \in 1..(Len(u) - 1) : ~(u[k] = "_" /\ u[k + 1] = "_")
        magnitude == DigitsValue(SelectSeq(u, IsDigit), 0)
    IN  IF wellFormed
        THEN Returns(PyInt(IF signed /\ t[1] = "-" THEN 0 - magnitude ELSE magnitude))
        ELSE Raises("ValueError")

\* int(v)
int(v) ==
    CASE v.ty = "int" -> Returns(v)
      [] v.ty = "str" -> int_str(v.s)
      [] OTHER -> Raises("TypeError")

-----------------------------------------------------------------------------
(* The methods of TimeSeriesBookScraper that the parsers call.             *)

Dissertation == <<"D","i","s","s","e","r","t","a","t","i","o","n">>

Thesis == <<"T","h","e","s","i","s">>

Book == <<"B","o","o","k">>

ResearchArticle == <<"R","e","s","e","a","r","c","h"," ","A","r","t","i","c","l","e">>

BookChapter == <<"B","o","o","k"," ","C","h","a","p","t","e","r">>

ConferencePaper == <<"C","o","n","f","e","r","e","n","c","e"," ","P","a","p","e","r">>

TechnicalReport == <<"T","e","c","h","n","i","c","a","l"," ","R","e","p","o","r","t">>

Preprint == <<"P","r","e","p","r","i","n","t">>

arXiv == <<"a","r","X","i","v">>

CrossRef == <<"C","r","o","s","s","R","e","f">>

InternetArchive == <<"I","n","t","e","r","n","e","t"," ","A","r","c","h","i","v","e">>

NDLTD == <<"N","D","L","T","D">>

thesis_keywords ==
    << <<"t","h","e","s","i","s">>, <<"d","i","s","s","e","r","t","a","t","i","o","n">>, <<"p","h","d">>, <<"m","a","s","t","e","r">>, <<"d","o","c","t","o","r","a","l">>, <<"g","r","a","d","u","a","t","e">> >>

doctoral_words == << <<"p","h","d">>, <<"d","o","c","t","o","r","a","l">>, <<"d","o","c","t","o","r">> >>

book_keywords ==
    << <<"h","a","n","d","b","o","o","k">>, <<"t","e","x","t","b","o","o","k">>, <<"m","a","n","u","a","l">>, <<"g","u","i","d","e">>, <<"i","n","t","r","o","d","u","c","t","i","o","n"," ","t","o">>,
       <<"p","r","i","n","c","i","p","l","e","s"," ","o","f">> >>

\* type_mapping.get(crossref_type, 'Research Article')
\* type_mapping.get(crossref_type, crossref_type): a code the table does not
\* hold is handed back as the label.
type_mapping_or_code(crossref_type) ==
    CASE crossref_type = <<"j","o","u","r","n","a","l","-","a","r","t","i","c","l","e">> -> ResearchArticle
      [] crossref_type = <<"b","o","o","k">> -> Book
      [] crossref_type = <<"b","o","o","k","-","c","h","a","p","t","e","r">> -> BookChapter
      [] crossref_type = <<"p","r","o","c","e","e","d","i","n","g","s","-","a","r","t","i","c","l","e">> -> ConferencePaper
      [] crossref_type = <<"d","i","s","s","e","r","t","a","t","i","o","n">> -> Dissertation
      [] crossref_type = <<"r","e","p","o","r","t">> -> TechnicalReport
      [] OTHER -> crossref_type

type_mapping(crossref_type) ==
    CASE crossref_type = <<"j","o","u","r","n","a","l","-","a","r","t","i","c","l","e">> -> ResearchArticle
      [] crossref_type = <<"b","o","o","k">> -> Book
      [] crossref_type = <<"b","o","o","k","-","c","h","a","p","t","e","r">> -> BookChapter
      [] crossref_type = <<"p","r","o","c","e","e","d","i","n","g","s","-","a","r","t","i","c","l","e">> -> ConferencePaper
      [] crossref_type = <<"d","i","s","s","e","r","t","a","t","i","o","n">> -> Dissertation
      [] crossref_type = <<"r","e","p","o","r","t">> -> TechnicalReport
      [] OTHER -> ResearchArticle

\* _classify_document_type with the Book test moved ahead of the thesis test.
classify_book_first(title, abstract, src, crossref_type) ==
    LET text == lower(Fmt2(title, abstract))
    IN  IF src = InternetArchive \/ AnyIn(book_keywords, text) THEN Book
        ELSE IF AnyIn(thesis_keywords, text)
        THEN IF AnyIn(doctoral_words, text) THEN Dissertation ELSE Thesis
        ELSE IF crossref_type # <<>> THEN type_mapping(crossref_type)
        ELSE IF src = arXiv THEN Preprint
        ELSE ResearchArticle

\* _classify_document_type with the arXiv default read before the type code.
classify_source_before_type(title, abstract, src, crossref_type) ==
    LET text == lower(Fmt2(title, abstract))
    IN  IF AnyIn(thesis_keywords, text)
        THEN IF AnyIn(doctoral_words, text) THEN Dissertation ELSE Thesis
        ELSE IF src = InternetArchive \/ AnyIn(book_keywords, text) THEN Book
        ELSE IF src = arXiv THEN Preprint
        ELSE IF crossref_type # <<>> THEN type_mapping(crossref_type)
        ELSE ResearchArticle

_classify_document_type(title, abstract, src, crossref_type) ==
    LET text == lower(Fmt2(title, abstract))
    IN  IF AnyIn(thesis_keywords, text)
        THEN IF AnyIn(doctoral_words, text) THEN Dissertation ELSE Thesis
        ELSE IF src = InternetArchive \/ AnyIn(book_keywords, text) THEN Book
        ELSE IF crossref_type # <<>> THEN type_mapping(crossref_type)
        ELSE IF src = arXiv THEN Preprint
        ELSE ResearchArticle

IsAlphaRun(w) == \A k \in DOMAIN w : IsAsciiAlpha(w[k])

\* re.findall(r'\b[a-zA-Z]{3,}\b', title): a match starts and ends at a word
\* boundary, so it is a whole maximal run of \w characters, all of them
\* letters, at least three.
title_words(title) ==
    LET LongAlpha(w) == Len(w) >= 3 /\ IsAlphaRun(w)
    IN  SelectSeq(Runs(title, <<>>, TRUE), LongAlpha)

_generate_bibtex_key(first_author, year, title) ==
    LET author_parts == split(first_author)
        last_part ==
            IF author_parts # <<>> THEN author_parts[Len(author_parts)]
            ELSE <<"U","n","k","n","o","w","n">>
        author_surname == SelectSeq(last_part, IsAsciiAlpha)
        words == title_words(title)
        title_word == IF words # <<>> THEN words[1] ELSE <<"T","i","t","l","e">>
        year_str == IF Truthy(year) THEN str(year) ELSE <<"U","n","k","n","o","w","n">>
    IN  author_surname \o year_str \o title_word

\* The keywords dict of lines 518-533, weights in tenths.
keywords ==
    << <<<<"t","i","m","e"," ","s","e","r","i","e","s">>, 30>>, <<<<"t","e","m","p","o","r","a","l"," ","a","n","a","l","y","s","i","s">>, 25>>, <<<<"f","o","r","e","c","a","s","t","i","n","g">>, 20>>,
       <<<<"a","r","i","m","a">>, 20>>, <<<<"g","a","r","c","h">>, 20>>, <<<<"s","t","o","c","h","a","s","t","i","c"," ","p","r","o","c","e","s","s">>, 20>>,
       <<<<"e","c","o","n","o","m","e","t","r","i","c","s">>, 15>>, <<<<"s","i","g","n","a","l"," ","p","r","o","c","e","s","s","i","n","g">>, 15>>,
       <<<<"t","i","m","e"," ","d","o","m","a","i","n">>, 15>>, <<<<"f","r","e","q","u","e","n","c","y"," ","d","o","m","a","i","n">>, 15>>, <<<<"s","e","a","s","o","n","a","l">>, 10>>,
       <<<<"t","r","e","n","d">>, 8>>, <<<<"c","o","r","r","e","l","a","t","i","o","n">>, 5>>, <<<<"r","e","g","r","e","s","s","i","o","n">>, 3>> >>

RECURSIVE score_loop(_, _)
score_loop(k, text) ==
    IF k > Len(keywords) THEN 0
    ELSE (IF Contains(keywords[k][1], text) THEN keywords[k][2] ELSE 0)
         + score_loop(k + 1, text)

\* The statements that follow the return of _generate_bibtex_key (lines
\* 514-541): min(score / 10.0, 1.0), in hundredths.  No def line introduces
\* them, so nothing in the program runs them.
scoring_statements(title, abstract) ==
    LET score == score_loop(1, lower(Fmt2(title, abstract)))
    IN  IF score < 100 THEN score ELSE 100

\* _calculate_relevance as a method whose body is the scoring statements.
calculate_relevance_defined(title, abstract) ==
    [exc |-> "", val |-> scoring_statements(title, abstract)]

\* self._calculate_relevance(title, abstract): the class body binds no
\* attribute of that name (the def lines of the class are 23, 31, 65, 103,
\* 184, 219, 309, 344, 393, 401, 452, 487, 500, 543, 584, 606, 652, 706), so
\* the attribute lookup raises before anything is called.
_calculate_relevance(title, abstract) == [exc |-> "AttributeError", val |-> 0]

UndergraduateThesis == <<"U","n","d","e","r","g","r","a","d","u","a","t","e"," ","T","h","e","s","i","s">>

_classify_thesis_type(title, abstract, degree_type) ==
    LET text == lower(title \o <<" ">> \o abstract \o <<" ">> \o degree_type)
    IN  IF AnyIn(<< <<"p","h","d">>, <<"d","o","c","t","o","r","a","l">>, <<"d","o","c","t","o","r">>, <<"p","h",".","d">> >>, text) THEN Dissertation
        ELSE IF AnyIn(<< <<"m","a","s","t","e","r">>, <<"m","s">>, <<"m",".","s">>, <<"m","a">>, <<"m",".","a">> >>, text) THEN Thesis
        ELSE IF AnyIn(<< <<"b","a","c","h","e","l","o","r">>, <<"b","s">>, <<"b",".","s">>, <<"b","a">>, <<"b",".","a">> >>, text)
             THEN UndergraduateThesis
        ELSE Thesis

-----------------------------------------------------------------------------
(* The per-candidate bodies of the four parsers.  The statements of a try  *)
(* block up to the relevance call are the extraction: they yield the       *)
(* fields, or the exception the first failing statement raises (at names   *)
(* the field it was reading).  Then one iteration of the for loop is       *)
(* "skipped" when the try block raised and the except clause ran,          *)
(* "rejected" when the if of the gate was false, and "accepted" with the   *)
(* dict appended to books.                                                 *)

NoTitle == <<"N","o"," ","t","i","t","l","e">>

Unknown == <<"U","n","k","n","o","w","n">>

Fields(title, authors, year, abstract, license_info, native) ==
    [exc |-> "", at |-> "", title |-> title, authors |-> authors, year |-> year,
     abstract |-> abstract, license_info |-> license_info, native |-> native]

Failed(e, where) ==
    [exc |-> e, at |-> where, title |-> <<>>, authors |-> <<>>, year |-> None,
     abstract |-> <<>>, license_info |-> <<>>, native |-> <<>>]

Skipped(e) == [kind |-> "skipped", exc |-> e, rec |-> <<>>]

Rejected == [kind |-> "rejected", exc |-> "", rec |-> <<>>]

Accepted(r) == [kind |-> "accepted", exc |-> "", rec |-> <<r>>]

\* The dict appended to books, with the keys every parser sets.
BookDict(f, src, license_type, relevance, doc_type) ==
    [title |-> f.title,
     authors |-> IF f.authors # <<>> THEN join(<<","," ">>, f.authors) ELSE Unknown,
     year |-> f.year,
     source |-> src,
     abstract |-> f.abstract,
     license_type |-> license_type,
     relevance_score |-> relevance,
     document_type |-> doc_type,
     bibtex_key |->
         _generate_bibtex_key(IF f.authors # <<>> THEN f.authors[1] ELSE Unknown,
                              f.year, f.title)]

\* if title and title != "No title" and relevance > 0.1      (line 150)
arxiv_gate(title, relevance) == title # <<>> /\ title # NoTitle /\ relevance > 10

\* The CrossRef gate without its has_license operand.
crossref_gate_ignoring_license(has_license, relevance, title) ==
    relevance > 10 /\ title # NoTitle

\* if has_license and relevance > 0.1 and title != "No title" (line 278)
crossref_gate(has_license, relevance, title) ==
    has_license /\ relevance > 10 /\ title # NoTitle

\* if relevance > 0.3                                         (line 371)
archive_gate(relevance) == relevance > 30

\* if relevance > 0.3                                         (line 430)
ndltd_gate(relevance) == relevance > 30

\* elem.text.strip() if elem is not None else default: an element is
\* [found, text], and the text of an empty element is None.
ElemText(elem, default) ==
    IF ~elem.found THEN Returns(PyStr(default))
    ELSE IF elem.text.ty # "str" THEN Raises("AttributeError")
    ELSE Returns(PyStr(strip(elem.text.s)))

\* year of lines 128-133: a failing int(published_elem.text[:4]) is caught
arxiv_year(published) ==
    IF ~published.found THEN None
    ELSE IF published.text.ty # "str" THEN None
    ELSE LET text == published.text.s
             parsed == int_str(SubSeq(text, 1, IF Len(text) < 4 THEN Len(text) ELSE 4))
         IN  IF parsed.exc = "" THEN parsed.val ELSE None

\* Lines 115-144 of _parse_arxiv_response.
arxiv_fields(entry) ==
    LET title == ElemText(entry.title, NoTitle)
        abstract == ElemText(entry.summary, <<>>)
    IN  IF title.exc # "" THEN Failed(title.exc, "title")
        ELSE IF abstract.exc # "" THEN Failed(abstract.exc, "summary")
        ELSE Fields(title.val.s, entry.authors, arxiv_year(entry.published),
                    abstract.val.s, <<>>, <<>>)

\* One iteration of the loop of _parse_arxiv_response (lines 113-172).
arxiv_entry(entry) ==
    LET f == arxiv_fields(entry)
        relevance == _calculate_relevance(f.title, f.abstract)
    IN  IF f.exc # "" THEN Skipped(f.exc)
        ELSE IF relevance.exc # "" THEN Skipped(relevance.exc)
        ELSE IF arxiv_gate(f.title, relevance.val)
             THEN Accepted(BookDict(f, arXiv, <<"O","p","e","n"," ","A","c","c","e","s","s">>, relevance.val,
                                    _classify_document_type(f.title, f.abstract, arXiv, <<>>)))
        ELSE Rejected

\* Lines 229-231: the first title, whitespace-collapsed.
crossref_title(titles) ==
    LET first == IF titles # <<>> THEN titles[1] ELSE NoTitle
    IN  IF first # <<>> THEN join(<<" ">>, split(first)) ELSE NoTitle

\* Lines 234-240: "given family" of every author that has a family name.
RECURSIVE crossref_authors(_)
crossref_authors(author) ==
    IF author = <<>> THEN <<>>
    ELSE (IF author[1].family # <<>>
          THEN <<strip(Fmt2(author[1].given, author[1].family))>>
          ELSE <<>>) \o crossref_authors(Tail(author))

\* Lines 243-254.  published is the list of the 'date-parts' lists of the key
\* the code reads ('published-print' first, else 'published-online'), or
\* absent; [0] of an empty list raises IndexError, a failing int() is caught.
crossref_year(published) ==
    IF ~published.found THEN Returns(None)
    ELSE IF published.parts = <<>> THEN Raises("IndexError")
    ELSE LET date_parts == published.parts[1]
         IN  IF date_parts = <<>> THEN Returns(None)
             ELSE LET parsed == int(date_parts[1])
                  IN  IF parsed.exc = "" THEN parsed ELSE Returns(None)

\* Lines 228-273 of _parse_crossref_response.
crossref_fields(item) ==
    LET year == crossref_year(item.published)
    IN  IF ~item.isdict THEN Failed("AttributeError", "item")
        ELSE IF year.exc # "" THEN Failed(year.exc, "year")
        ELSE Fields(crossref_title(item.title), crossref_authors(item.author), year.val,
                    item.abstract, item.license, item.type)

\* One iteration of the loop of _parse_crossref_response (lines 226-305).
crossref_item(item) ==
    LET f == crossref_fields(item)
        has_license == Len(f.license_info) > 0
        relevance == _calculate_relevance(f.title, f.abstract)
    IN  IF f.exc # "" THEN Skipped(f.exc)
        ELSE IF relevance.exc # "" THEN Skipped(relevance.exc)
        ELSE IF crossref_gate(has_license, relevance.val, f.title)
             THEN Accepted(BookDict(f, CrossRef,
                                    IF f.license_info # <<>> THEN <<"O","p","e","n"," ","A","c","c","e","s","s">>
                                    ELSE <<"L","i","c","e","n","s","e","d">>,
                                    relevance.val,
                                    _classify_document_type(f.title, f.abstract, CrossRef,
                                                            f.native)))
        ELSE Rejected

\* Lines 351-353: a str creator becomes a one-element list.
archive_authors(creator) ==
    IF creator.ty = "str" THEN <<creator.s>>
    ELSE [k \in DOMAIN creator.l |-> creator.l[k].s]

\* Lines 355-359.
archive_year(year) ==
    IF year.ty = "list" /\ year.l # <<>> THEN int(year.l[1])
    ELSE IF year.ty = "str"
         THEN (IF isdigit(year.s) THEN int(year) ELSE Returns(None))
    ELSE Returns(year)

\* Lines 350-366 of _parse_internet_archive_response.
archive_fields(doc) ==
    LET year == archive_year(doc.year)
    IN  IF ~doc.isdict THEN Failed("AttributeError", "item")
        ELSE IF year.exc # "" THEN Failed(year.exc, "year")
        ELSE Fields(doc.title, archive_authors(doc.creator), year.val,
                    doc.description, <<>>, <<>>)

\* One iteration of the loop of _parse_internet_archive_response (348-389).
archive_doc(doc) ==
    LET f == archive_fields(doc)
        relevance == _calculate_relevance(f.title, f.abstract)
        doc_type == _classify_document_type(f.title, f.abstract, InternetArchive, <<>>)
    IN  IF f.exc # "" THEN Skipped(f.exc)
        ELSE IF relevance.exc # "" THEN Skipped(relevance.exc)
        ELSE IF archive_gate(relevance.val)
             THEN Accepted(BookDict(f, InternetArchive, <<"P","u","b","l","i","c"," ","D","o","m","a","i","n">>, relevance.val,
                                    doc_type))
        ELSE Rejected

\* x.get(k, [''])[0] if isinstance(x.get(k), list) else x.get(k, '')
FirstOrSelf(v) ==
    IF v.ty = "list"
    THEN (IF v.l = <<>> THEN Raises("IndexError") ELSE Returns(v.l[1]))
    ELSE Returns(v)

\* Lines 413-417.
ndltd_year(year) ==
    IF year.ty = "list" /\ year.l # <<>> THEN int(year.l[1])
    ELSE IF year.ty = "str" /\ isdigit(year.s) THEN int(year)
    ELSE Returns(year)

\* Lines 407-426 of _parse_ndltd_response.
ndltd_fields(doc) ==
    LET title == FirstOrSelf(doc.title)
        year == ndltd_year(doc.year)
    IN  IF ~doc.isdict THEN Failed("AttributeError", "item")
        ELSE IF title.exc # "" THEN Failed(title.exc, "title")
        ELSE IF year.exc # "" THEN Failed(year.exc, "year")
        ELSE Fields(title.val.s, doc.author, year.val, doc.description, <<>>, doc.degree)

\* One iteration of the loop of _parse_ndltd_response (lines 405-448).
ndltd_doc(doc) ==
    LET f == ndltd_fields(doc)
        doc_type == _classify_thesis_type(f.title, f.abstract, f.native)
        relevance == _calculate_relevance(f.title, f.abstract)
    IN  IF f.exc # "" THEN Skipped(f.exc)
        ELSE IF relevance.exc # "" THEN Skipped(relevance.exc)
        ELSE IF ndltd_gate(relevance.val)
             THEN Accepted(BookDict(f, NDLTD, <<"O","p","e","n"," ","A","c","c","e","s","s">>, relevance.val, doc_type))
        ELSE Rejected

-----------------------------------------------------------------------------
(* The responses the parsers are run on.                                   *)

MaxBatch == 2

\* An element of an arXiv entry: find() returned None, or an element whose
\* text is None (an empty tag) or a str.
NoElem == [found |-> FALSE, text |-> None]

EmptyElem == [found |-> TRUE, text |-> None]

Elem(chars) == [found |-> TRUE, text |-> PyStr(chars)]

ArxivEntries ==
    { [title |-> Elem(<<"T","i","m","e"," ","S","e","r","i","e","s"," ","F","o","r","e","c","a","s","t","i","n","g">>), summary |-> Elem(<<"A","R","I","M","A"," ","m","o","d","e","l","s">>),
       published |-> Elem(<<"2","0","2","0","-","0","1","-","0","1","T","0","0",":","0","0",":","0","0","Z">>), authors |-> << <<"J","a","n","e"," ","D","o","e">> >>],
      [title |-> EmptyElem, summary |-> Elem(<<"t","i","m","e"," ","s","e","r","i","e","s">>),
       published |-> Elem(<<"2","0","2","0","-","0","1","-","0","1","T","0","0",":","0","0",":","0","0","Z">>), authors |-> << <<"J","a","n","e"," ","D","o","e">> >>],
      [title |-> Elem(<<"S","e","a","s","o","n","a","l"," ","t","r","e","n","d">>), summary |-> NoElem,
       published |-> Elem(<<"n",".","d",".">>), authors |-> <<>>],
      [title |-> NoElem, summary |-> Elem(<<"t","i","m","e"," ","s","e","r","i","e","s">>),
       published |-> NoElem, authors |-> <<>>],
      [title |-> Elem(<<"R","e","g","r","e","s","s","i","o","n">>), summary |-> Elem(<<" ">>),
       published |-> Elem(<<"2","0","2","1","-","0","5","-","0","1">>), authors |-> << <<"W","e","i"," ","L","i">> >>],
      [title |-> Elem(<<" "," ">>), summary |-> Elem(<<"t","i","m","e"," ","s","e","r","i","e","s">>),
       published |-> Elem(<<"2","0","2","1","-","0","5","-","0","1">>), authors |-> << <<"W","e","i"," ","L","i">> >>],
      [title |-> Elem(<<"G","A","R","C","H">>), summary |-> NoElem,
       published |-> Elem(<<"0","0","0","0","-","0","1","-","0","1">>), authors |-> << <<"J","a","n","e"," ","D","o","e">>, <<"W","e","i"," ","L","i">> >>] }

NotPublished == [found |-> FALSE, parts |-> <<>>]

Published(parts) == [found |-> TRUE, parts |-> parts]

JaneDoe == [given |-> <<"J","a","n","e">>, family |-> <<"D","o","e">>]

CrossrefItems ==
    { [isdict |-> TRUE, title |-> << <<"T","i","m","e"," "," ","S","e","r","i","e","s"," ","E","c","o","n","o","m","e","t","r","i","c","s">> >>, author |-> <<JaneDoe>>,
       published |-> Published(<< <<PyInt(2020), PyInt(5)>> >>), abstract |-> <<>>,
       license |-> << <<"c","c","-","b","y">> >>, type |-> <<"j","o","u","r","n","a","l","-","a","r","t","i","c","l","e">>],
      [isdict |-> TRUE, title |-> << <<"T","i","m","e"," "," ","S","e","r","i","e","s"," ","E","c","o","n","o","m","e","t","r","i","c","s">> >>, author |-> <<JaneDoe>>,
       published |-> Published(<< <<PyInt(2020), PyInt(5)>> >>), abstract |-> <<>>,
       license |-> <<>>, type |-> <<"j","o","u","r","n","a","l","-","a","r","t","i","c","l","e">>],
      [isdict |-> FALSE, title |-> <<>>, author |-> <<>>, published |-> NotPublished,
       abstract |-> <<>>, license |-> <<>>, type |-> <<>>],
      [isdict |-> TRUE, title |-> << <<"F","o","r","e","c","a","s","t","i","n","g">> >>, author |-> <<>>,
       published |-> Published(<<>>), abstract |-> <<>>,
       license |-> << <<"c","c","-","b","y">> >>, type |-> <<"b","o","o","k">>],
      [isdict |-> TRUE, title |-> << <<" "," ">> >>, author |-> <<JaneDoe>>,
       published |-> NotPublished, abstract |-> <<"t","i","m","e"," ","s","e","r","i","e","s">>,
       license |-> << <<"c","c","-","b","y">> >>, type |-> <<>>],
      [isdict |-> TRUE, title |-> <<>>, author |-> <<JaneDoe>>,
       published |-> Published(<< <<>> >>), abstract |-> <<"t","i","m","e"," ","s","e","r","i","e","s">>,
       license |-> << <<"c","c","-","b","y">> >>, type |-> <<>>],
      [isdict |-> TRUE, title |-> << <<"F","o","r","e","c","a","s","t","i","n","g"," ","h","a","n","d","b","o","o","k">> >>, author |-> <<>>,
       published |-> Published(<< <<PyStr(<<"n",".","d",".">>)>> >>), abstract |-> <<>>,
       license |-> << <<"c","c","-","b","y">> >>, type |-> <<"b","o","o","k">>],
      [isdict |-> TRUE, title |-> << <<"S","e","a","s","o","n","a","l">> >>, author |-> <<JaneDoe>>,
       published |-> Published(<< <<None>> >>), abstract |-> <<>>,
       license |-> << <<"c","c","-","b","y">> >>, type |-> <<"j","o","u","r","n","a","l","-","a","r","t","i","c","l","e">>] }

ArchiveDocs ==
    { [isdict |-> TRUE, title |-> <<"T","i","m","e"," ","S","e","r","i","e","s"," ","A","n","a","l","y","s","i","s">>, creator |-> PyStr(<<"G","e","o","r","g","e"," ","B","o","x">>),
       year |-> PyStr(<<"1","9","7","0">>), description |-> <<"f","o","r","e","c","a","s","t","i","n","g"," ","a","n","d"," ","c","o","n","t","r","o","l">>],
      [isdict |-> TRUE, title |-> <<>>, creator |-> PyList(<<>>),
       year |-> PyInt(1970), description |-> <<"t","i","m","e"," ","s","e","r","i","e","s"," ","f","o","r","e","c","a","s","t","i","n","g">>],
      [isdict |-> TRUE, title |-> <<"T","i","m","e"," ","s","e","r","i","e","s"," ","f","o","r","e","c","a","s","t","i","n","g">>,
       creator |-> PyList(<<PyStr(<<"G","e","o","r","g","e"," ","B","o","x">>)>>),
       year |-> PyList(<<PyStr(<<"c","1","9","7","0">>)>>), description |-> <<>>],
      [isdict |-> TRUE, title |-> <<"T","i","m","e"," ","s","e","r","i","e","s"," ","a","n","d"," ","t","r","e","n","d">>, creator |-> PyList(<<>>),
       year |-> PyStr(<<"1","9","x","x">>), description |-> <<>>],
      [isdict |-> TRUE, title |-> <<"T","i","m","e"," ","S","e","r","i","e","s">>, creator |-> PyList(<<>>),
       year |-> None, description |-> <<>>],
      [isdict |-> FALSE, title |-> <<>>, creator |-> PyList(<<>>),
       year |-> None, description |-> <<>>],
      [isdict |-> TRUE, title |-> <<"S","t","o","c","h","a","s","t","i","c"," ","p","r","o","c","e","s","s"," ","a","n","d"," ","A","R","I","M","A">>, creator |-> PyList(<<>>),
       year |-> PyList(<<PyInt(1994)>>), description |-> <<>>] }

NdltdDocs ==
    { [isdict |-> TRUE, title |-> PyList(<<PyStr(<<"T","i","m","e"," ","s","e","r","i","e","s"," ","f","o","r","e","c","a","s","t","i","n","g">>)>>),
       author |-> << <<"J","a","n","e"," ","D","o","e">> >>, year |-> PyStr(<<"2","0","1","9">>),
       description |-> <<>>, degree |-> <<"P","h","D">>],
      [isdict |-> TRUE, title |-> PyList(<<>>), author |-> <<>>, year |-> None,
       description |-> <<"t","i","m","e"," ","s","e","r","i","e","s"," ","a","r","i","m","a">>, degree |-> <<>>],
      [isdict |-> TRUE, title |-> PyStr(<<"T","i","m","e"," ","s","e","r","i","e","s"," ","G","A","R","C","H">>), author |-> <<>>,
       year |-> PyStr(<<"n",".","d",".">>), description |-> <<>>, degree |-> <<"M","S">>],
      [isdict |-> TRUE, title |-> PyStr(<<>>), author |-> << <<"J","a","n","e"," ","D","o","e">> >>,
       year |-> PyInt(2019), description |-> <<"t","i","m","e"," ","s","e","r","i","e","s"," ","a","r","i","m","a">>, degree |-> <<>>],
      [isdict |-> TRUE, title |-> PyStr(<<"T","r","e","n","d">>), author |-> <<>>, year |-> None,
       description |-> <<>>, degree |-> <<"B","A">>],
      [isdict |-> TRUE, title |-> PyStr(<<"T","i","m","e"," ","s","e","r","i","e","s"," ","A","R","I","M","A">>), author |-> <<>>,
       year |-> PyList(<<PyStr(<<"c","a","."," ","2","0","0","1">>)>>), description |-> <<>>, degree |-> <<>>],
      [isdict |-> FALSE, title |-> None, author |-> <<>>, year |-> None,
       description |-> <<>>, degree |-> <<>>] }

Sources == {arXiv, CrossRef, InternetArchive, NDLTD}

Candidates(src) ==
    CASE src = arXiv -> ArxivEntries
      [] src = CrossRef -> CrossrefItems
      [] src = InternetArchive -> ArchiveDocs
      [] src = NDLTD -> NdltdDocs

Batches(pool) == UNION {[1..n -> pool] : n \in 0..MaxBatch}

\* The shapes of a response: "expected" carries candidates; the others are
\*   not_xml         text ET.fromstring cannot parse
\*   not_feed        well-formed XML with no atom:entry child
\*   not_json        a body response.json() cannot decode
\*   not_dict        JSON that is not an object (data.get raises)
\*   items_not_list  an object whose candidate list is null
\*   no_items        an object without the candidate list
MalformedShapes(src) ==
    CASE src = arXiv -> {"not_xml", "not_feed"}
      [] src = CrossRef -> {"not_json", "not_dict", "items_not_list", "no_items"}
      [] src = InternetArchive -> {"not_json", "not_dict", "items_not_list", "no_items"}
      [] src = NDLTD -> {"not_dict", "items_not_list", "no_items"}

Payloads(src) ==
    {[shape |-> "expected", entries |-> b] : b \in Batches(Candidates(src))}
    \cup {[shape |-> sh, entries |-> <<>>] : sh \in MalformedShapes(src)}

-----------------------------------------------------------------------------
(* One search: search_arxiv, search_crossref and search_internet_archive   *)
(* with the parser each calls, and _parse_ndltd_response called directly   *)
(* (search_ndltd returns [] without calling it).                           *)

NoCall == [fn |-> "none"]

NoResult == [kind |-> "none", books |-> <<>>, exc |-> ""]

ListResult(bs) == [kind |-> "list", books |-> bs, exc |-> ""]

RaisedResult(e) == [kind |-> "raised", books |-> <<>>, exc |-> e]

InitParse ==
    /\ source \in Sources
    /\ payload \in Payloads(source)
    /\ pc = "start"
    /\ idx = 1
    /\ books = <<>>
    /\ trace = <<>>
    /\ warnings = 0
    /\ errors = 0
    /\ result = NoResult
    /\ call = NoCall
    /\ store = <<>>
    /\ batch = <<>>

\* The handler of a top-level failure: `n` st.error calls and return [].
TopLevelCaught(n) ==
    /\ errors' = errors + n
    /\ result' = ListResult(<<>>)
    /\ pc' = "returned"
    /\ UNCHANGED <<call, source, payload, idx, books, trace, warnings, store, batch>>

EnterLoop ==
    /\ pc' = "loop"
    /\ UNCHANGED <<call, source, payload, idx, books, trace, warnings, errors, result, store, batch>>

\* _parse_arxiv_response, lines 105-111 and the handlers of lines 176-182.
ArxivParseXml ==
    /\ pc = "start" /\ source = arXiv
    /\ IF payload.shape = "not_xml" THEN TopLevelCaught(2) ELSE EnterLoop

\* search_crossref, lines 200-217, with lines 221-224 of the parser.
CrossrefReadItems ==
    /\ pc = "start" /\ source = CrossRef
    /\ IF payload.shape \in {"not_json", "not_dict", "items_not_list"}
       THEN TopLevelCaught(1) ELSE EnterLoop

\* search_internet_archive, lines 324-342, with lines 346-348 of the parser.
ArchiveReadDocs ==
    /\ pc = "start" /\ source = InternetArchive
    /\ IF payload.shape \in {"not_json", "not_dict", "items_not_list"}
       THEN TopLevelCaught(1) ELSE EnterLoop

\* _parse_ndltd_response, lines 403-405: nothing catches what data.get or
\* the for statement raises.
NdltdReadDocs ==
    /\ pc = "start" /\ source = NDLTD
    /\ IF payload.shape \in {"not_dict", "items_not_list"}
       THEN /\ result' = RaisedResult(IF payload.shape = "not_dict"
                                      THEN "AttributeError" ELSE "TypeError")
            /\ pc' = "returned"
            /\ UNCHANGED <<call, source, payload, idx, books, trace, warnings, errors, store, batch>>
       ELSE EnterLoop

\* One iteration of a parser's for loop: the except clauses of arXiv and
\* CrossRef call st.warning, those of Internet Archive and NDLTD only continue.
Iteration(outcome, warns) ==
    /\ pc = "loop"
    /\ idx <= Len(payload.entries)
    /\ books' = books \o outcome.rec
    /\ trace' = Append(trace, outcome.kind)
    /\ warnings' = IF warns /\ outcome.kind = "skipped" THEN warnings + 1 ELSE warnings
    /\ idx' = idx + 1
    /\ UNCHANGED <<call, pc, source, payload, errors, result, store, batch>>

ArxivEntry == source = arXiv /\ Iteration(arxiv_entry(payload.entries[idx]), TRUE)

CrossrefItem == source = CrossRef /\ Iteration(crossref_item(payload.entries[idx]), TRUE)

ArchiveDoc ==
    source = InternetArchive /\ Iteration(archive_doc(payload.entries[idx]), FALSE)

NdltdDoc == source = NDLTD /\ Iteration(ndltd_doc(payload.entries[idx]), FALSE)

\* return books, which search_* hands on to its caller
ParserReturns ==
    /\ pc = "loop"
    /\ idx > Len(payload.entries)
    /\ result' = ListResult(books)
    /\ pc' = "returned"
    /\ UNCHANGED <<call, source, payload, idx, books, trace, warnings, errors, store, batch>>

NextParse ==
    \/ ArxivParseXml
    \/ CrossrefReadItems
    \/ ArchiveReadDocs
    \/ NdltdReadDocs
    \/ ArxivEntry
    \/ CrossrefItem
    \/ ArchiveDoc
    \/ NdltdDoc
    \/ ParserReturns

SpecParse == InitParse /\ [][NextParse]_vars

-----------------------------------------------------------------------------
(* Direct calls of the pure methods, on texts of up to MaxWords words.     *)

MaxWords == 2

\* The texts of at most n words of vocab, joined by single spaces.
Texts(vocab, n) == {join(<<" ">>, ws) : ws \in UNION {[1..k -> vocab] : k \in 0..n}}

ClassifyWords ==
    { <<"P","h","D">>, <<"D","i","s","s","e","r","t","a","t","i","o","n">>, <<"t","h","e","s","i","s">>, <<"M","a","s","t","e","r">>, <<"H","a","n","d","b","o","o","k">>, <<"A","R","I","M","A">> }

ClassifyTitles == Texts(ClassifyWords, MaxWords) \cup { <<"P","h","D"," ","D","i","s","s","e","r","t","a","t","i","o","n"," ","o","n"," ","A","R","I","M","A">> }

ClassifyAbstracts == { <<>>, <<"a","n"," ","i","n","t","r","o","d","u","c","t","i","o","n"," ","t","o"," ","f","o","r","e","c","a","s","t","i","n","g">>, <<"d","o","c","t","o","r","a","l"," ","w","o","r","k">> }

CrossrefTypes ==
    { <<>>, <<"j","o","u","r","n","a","l","-","a","r","t","i","c","l","e">>, <<"b","o","o","k">>, <<"b","o","o","k","-","c","h","a","p","t","e","r">>, <<"p","r","o","c","e","e","d","i","n","g","s","-","a","r","t","i","c","l","e">>,
      <<"d","i","s","s","e","r","t","a","t","i","o","n">>, <<"r","e","p","o","r","t">>, <<"p","o","s","t","e","d","-","c","o","n","t","e","n","t">> }

DegreeWords == { <<"T","r","e","n","d","s">>, <<"P","h","D">>, <<"B","a","c","h","e","l","o","r">> }

DegreeTitles == Texts(DegreeWords, MaxWords)

DegreeAbstracts == { <<>>, <<"a"," ","d","o","c","t","o","r","a","l"," ","s","t","u","d","y">> }

DegreeTypes == { <<>>, <<"P","h",".","D",".">>, <<"M",".","S",".">>, <<"B",".","A",".">>, <<"D","i","p","l","o","m","a">> }

ScoreWords ==
    { <<"T","i","m","e"," ","S","e","r","i","e","s">>, <<"f","o","r","e","c","a","s","t","i","n","g">>, <<"t","r","e","n","d">>, <<"R","e","g","r","e","s","s","i","o","n">>, <<"s","e","a","s","o","n","a","l">>,
      <<"m","o","d","e","l","s">>, <<"A","R","I","M","A">>, <<"t","e","m","p","o","r","a","l"," ","a","n","a","l","y","s","i","s">> }

ScoreTitles == Texts(ScoreWords, MaxWords)

ScoreAbstracts ==
    { <<>>, <<"t","i","m","e"," ","s","e","r","i","e","s">>, <<"G","A","R","C","H"," ","a","n","d"," ","s","t","o","c","h","a","s","t","i","c"," ","p","r","o","c","e","s","s">>, <<"c","o","r","r","e","l","a","t","i","o","n">> }

KeyWords == { <<"A","d","v","a","n","c","e","s">>, <<"i","n">>, <<"F","o","r","e","c","a","s","t","i","n","g">>, <<"A","R","1">>, <<"a">> }

KeyTitles == Texts(KeyWords, MaxWords) \cup { <<"A","d","v","a","n","c","e","s"," ","i","n"," ","F","o","r","e","c","a","s","t","i","n","g">> }

KeyAuthors ==
    { <<"J","a","n","e"," ","D","o","e">>, <<>>, <<"D","o","e">>, <<"J","."," ","O","'","N","e","i","l","-","S","m","i","t","h">>, <<"J","a","n","e"," ","1","2","3">>, <<"U","n","k","n","o","w","n">> }

KeyYears == {None, PyInt(2020), PyInt(0), PyInt(1999), PyInt(0 - 44)}

Idle ==
    /\ pc = "idle"
    /\ source = arXiv
    /\ payload = [shape |-> "expected", entries |-> <<>>]
    /\ idx = 1
    /\ books = <<>>
    /\ trace = <<>>
    /\ warnings = 0
    /\ errors = 0
    /\ result = NoResult

InitCalls == Idle /\ call = NoCall /\ store = <<>> /\ batch = <<>>

ParserIdle ==
    UNCHANGED <<pc, source, payload, idx, books, trace, warnings, errors, result,
                store, batch>>

CallClassifyDocumentType ==
    /\ call = NoCall
    /\ \E title \in ClassifyTitles, abstract \in ClassifyAbstracts, src \in Sources,
          crossref_type \in CrossrefTypes :
           call' = [fn |-> "_classify_document_type", title |-> title,
                    abstract |-> abstract, source |-> src,
                    crossref_type |-> crossref_type,
                    result |-> _classify_document_type(title, abstract, src,
                                                       crossref_type)]
    /\ ParserIdle

CallGenerateBibtexKey ==
    /\ call = NoCall
    /\ \E first_author \in KeyAuthors, year \in KeyYears, title \in KeyTitles :
           call' = [fn |-> "_generate_bibtex_key", first_author |-> first_author,
                    year |-> year, title |-> title,
                    result |-> _generate_bibtex_key(first_author, year, title)]
    /\ ParserIdle

CallClassifyThesisType ==
    /\ call = NoCall
    /\ \E title \in DegreeTitles, abstract \in DegreeAbstracts,
          degree_type \in DegreeTypes :
           call' = [fn |-> "_classify_thesis_type", title |-> title,
                    abstract |-> abstract, degree_type |-> degree_type,
                    result |-> _classify_thesis_type(title, abstract, degree_type)]
    /\ ParserIdle

CallCalculateRelevance ==
    /\ call = NoCall
    /\ \E title \in ScoreTitles, abstract \in ScoreAbstracts :
           call' = [fn |-> "_calculate_relevance", title |-> title,
                    abstract |-> abstract,
                    result |-> _calculate_relevance(title, abstract)]
    /\ ParserIdle

NextCalls ==
    \/ CallClassifyDocumentType
    \/ CallGenerateBibtexKey
    \/ CallClassifyThesisType
    \/ CallCalculateRelevance

SpecCalls == InitCalls /\ [][NextCalls]_vars

-----------------------------------------------------------------------------
(* save_to_database on table books.                                        *)

MaxSave == 2

SavedBook(title, src, authors) ==
    [title |-> title, authors |-> authors, year |-> PyInt(2020), source |-> src,
     abstract |-> <<>>, license_type |-> <<"O","p","e","n"," ","A","c","c","e","s","s">>, relevance_score |-> 30,
     document_type |-> ResearchArticle,
     bibtex_key |-> _generate_bibtex_key(authors, PyInt(2020), title)]

SaveBooks ==
    { SavedBook(<<"T","i","m","e"," ","S","e","r","i","e","s">>, arXiv, <<"J","a","n","e"," ","D","o","e">>),
      SavedBook(<<"T","i","m","e"," ","S","e","r","i","e","s">>, arXiv, <<"W","e","i"," ","L","i">>),
      SavedBook(<<"T","i","m","e"," ","S","e","r","i","e","s">>, CrossRef, <<"J","a","n","e"," ","D","o","e">>),
      SavedBook(<<"t","i","m","e"," ","s","e","r","i","e","s">>, arXiv, <<"J","a","n","e"," ","D","o","e">>) }

\* The row INSERT adds: id is the AUTOINCREMENT rowid, and no row is deleted.
Row(rows, book) ==
    [id |-> Len(rows) + 1, title |-> book.title, authors |-> book.authors,
     year |-> book.year, source |-> book.source, abstract |-> book.abstract,
     license_type |-> book.license_type, relevance_score |-> book.relevance_score,
     document_type |-> book.document_type, bibtex_key |-> book.bibtex_key]

\* The existence test with the title alone in its WHERE clause.
fetchone_by_title(rows, book) == \E k \in DOMAIN rows : rows[k].title = book.title

\* SELECT id FROM books WHERE title = ? AND source = ?  ... fetchone()
fetchone(rows, book) ==
    \E k \in DOMAIN rows : rows[k].title = book.title /\ rows[k].source = book.source

\* The for loop of lines 548-579, on the connection's view of the table.
RECURSIVE save_loop(_, _)
save_loop(rows, bs) ==
    IF bs = <<>> THEN rows
    ELSE save_loop(IF ~fetchone(rows, Head(bs)) THEN Append(rows, Row(rows, Head(bs)))
                   ELSE rows,
                   Tail(bs))

InitStore == Idle /\ call = NoCall /\ store = <<>> /\ batch = <<>>

\* save_to_database(books): the loop, then conn.commit().
SaveToDatabase ==
    \E bs \in UNION {[1..n -> SaveBooks] : n \in 0..MaxSave} :
        /\ batch' = bs
        /\ store' = save_loop(store, bs)
        /\ UNCHANGED <<call, pc, source, payload, idx, books, trace, warnings, errors,
                       result>>

NextStore == SaveToDatabase

SpecStore == InitStore /\ [][NextStore]_vars

-----------------------------------------------------------------------------
(* What the claims say of a candidate, read off the raw response.          *)

fields_of(src, c) ==
    CASE src = arXiv -> arxiv_fields(c)
      [] src = CrossRef -> crossref_fields(c)
      [] src = InternetArchive -> archive_fields(c)
      [] src = NDLTD -> ndltd_fields(c)

\* The relevance_score the specification gives the candidate, in hundredths.
relevance_of(src, c) ==
    scoring_statements(fields_of(src, c).title, fields_of(src, c).abstract)

\* The candidate's extraction does not raise and it meets its source's gate.
MeetsGate(src, c) ==
    LET f == fields_of(src, c)
    IN  /\ f.exc = ""
        /\ IF src \in {arXiv, CrossRef}
           THEN /\ relevance_of(src, c) > 10
                /\ f.title # <<>> /\ f.title # NoTitle
                /\ src = CrossRef => f.license_info # <<>>
           ELSE relevance_of(src, c) > 30

Finished == pc = "returned" /\ payload.shape = "expected"

TitlesOf(records) == [k \in DOMAIN records |-> records[k].title]

\* The titles of the candidates of entries that meet the gate of src, in
\* input order.
RECURSIVE KeptTitles(_, _)
KeptTitles(src, entries) ==
    IF entries = <<>> THEN <<>>
    ELSE (IF MeetsGate(src, Head(entries)) THEN <<fields_of(src, Head(entries)).title>>
          ELSE <<>>) \o KeptTitles(src, Tail(entries))

-----------------------------------------------------------------------------
(* The exporters.  A DataFrame is the sequence of its rows, a row a record *)
(* of the columns of the books table that the exporters read.  The year    *)
(* cell is a Python value; the cells of the TEXT columns are strings.      *)

MaxRows == 2

NL == <<"\n">>

\* A row as save_to_database stores the dict a parser assembles from the
\* ordered list `authors`.
BookRow(id, title, authors, year, document_type, abstract, more) ==
    [id |-> id, title |-> title,
     authors |-> IF authors # <<>> THEN join(<<","," ">>, authors) ELSE Unknown,
     year |-> year,
     document_type |-> document_type, abstract |-> abstract,
     url |-> more.url, doi |-> more.doi, journal |-> more.journal,
     publisher |-> more.publisher, volume |-> more.volume, issue |-> more.issue,
     pages |-> more.pages, isbn |-> more.isbn,
     bibtex_key |->
         _generate_bibtex_key(IF authors # <<>> THEN authors[1] ELSE Unknown, year,
                              title),
     date_added |-> <<"2","0","2","4","-","0","1","-","0","1"," ","0","0",":","0","0",":","0","0">>]

\* The columns save_to_database fills with '' for a record that lacks them.
NoMore ==
    [url |-> <<>>, doi |-> <<>>, journal |-> <<>>, publisher |-> <<>>,
     volume |-> <<>>, issue |-> <<>>, pages |-> <<>>, isbn |-> <<>>]

InJournal ==
    [url |-> <<"h","t","t","p",":","/","/","x",".","o","r","g","/","1">>, doi |-> <<"1","0",".","1","/","x">>, journal |-> <<"J","."," ","F","o","r","e","c","a","s","t","i","n","g">>,
     publisher |-> <<>>, volume |-> <<"1","2">>, issue |-> <<"3">>, pages |-> <<"1","-","9">>,
     isbn |-> <<>>]

InPrint ==
    [url |-> <<>>, doi |-> <<>>, journal |-> <<>>, publisher |-> <<"W","i","l","e","y">>,
     volume |-> <<>>, issue |-> <<>>, pages |-> <<>>, isbn |-> <<"9","7","8","-","0">>]

\* Rows of the table, the year as stored: an int or NULL.
TableRows ==
    { BookRow(1, <<"T","i","m","e"," ","S","e","r","i","e","s">>, << <<"J","a","n","e"," ","D","o","e">>, <<"W","e","i"," ","L","i">> >>, PyInt(2020),
              ResearchArticle, <<"O","n"," ","t","r","e","n","d","s",".">>, InJournal),
      BookRow(2, <<"F","o","r","e","c","a","s","t","i","n","g"," ","H","a","n","d","b","o","o","k">>, << <<"S","m","i","t","h",","," ","A","n","n">> >>, None, Book, <<>>, InPrint),
      BookRow(3, <<"A","R","I","M","A"," ","M","o","d","e","l","s">>, <<>>, PyInt(1999), Dissertation,
              <<"F","i","r","s","t",".">> \o NL \o NL \o <<"S","e","c","o","n","d",".">>, InPrint),
      BookRow(4, <<"G","A","R","C","H">>, << <<"A","n","n"," ","L","e","e">> >>, None, UndergraduateThesis, <<>>, NoMore),
      BookRow(5, <<"T","r","e","n","d"," ","M","o","d","e","l","s">>, << <<"B","o"," ","C","h","e","n">> >>, PyInt(2020), BookChapter, <<>>, NoMore),
      BookRow(6, <<"S","e","a","s","o","n","a","l"," ","M","o","d","e","l","s">>, << <<"A","l"," ","A","d","a","m","s">> >>, PyInt(2021), ConferencePaper, <<>>,
              NoMore),
      BookRow(7, <<"A"," ","T","h","e","s","i","s">>, << <<"C","y"," ","Y","o","u","n","g">> >>, PyInt(2019), Thesis, <<>>, NoMore),
      BookRow(8, <<"R","e","g","r","e","s","s","i","o","n">>, << <<"D","i"," ","P","a","r","k">> >>, PyInt(2018), Preprint, <<>>, InJournal),
      BookRow(9, <<"S","i","g","n","a","l"," ","R","e","p","o","r","t">>, << <<"E","d"," ","D","i","a","z">> >>, PyInt(2017), TechnicalReport, <<>>,
              NoMore),
      BookRow(10, <<"N","o","t","e","s">>, << <<"F","l","o"," ","I","t","o">> >>, PyInt(2016), <<"L","e","c","t","u","r","e"," ","N","o","t","e","s">>, <<>>, NoMore) }

\* The year column as pandas types it.  A column of ints alone is int64 and
\* its cells are ints.  With a missing value in it, the column is float64 as
\* pandas infers it (the ints are floats, the missing value is NaN), or of
\* dtype object when the caller built it so (ints and None as they are).
YearDtypes(rows) ==
    IF \A k \in DOMAIN rows : rows[k].year # None THEN {"int64"}
    ELSE {"float64", "object"}

YearCell(dtype, year) ==
    IF dtype = "float64" THEN (IF year = None THEN NaN ELSE PyFloat(year.i)) ELSE year

Frame(rows, dtype) ==
    [k \in DOMAIN rows |-> [rows[k] EXCEPT !.year = YearCell(dtype, rows[k].year)]]

\* The frames an exporter is called with: main exports only if not df.empty
\* (line 856), and ids are those of distinct rows of the table.
DataFrames ==
    { Frame(rows, dtype) :
        <<rows, dtype>> \in
            { x \in (UNION {[1..n -> TableRows] : n \in 1..MaxRows})
                        \X {"int64", "float64", "object"} :
                /\ x[2] \in YearDtypes(x[1])
                /\ \A i, j \in DOMAIN x[1] : x[1][i].id = x[1][j].id => i = j } }

\* filter(None, entry) of a list of str
filter_None(lines) == LET NonEmpty(l) == l # <<>> IN SelectSeq(lines, NonEmpty)

\* The RIS type code of lines 659-669.
ris_type_code(document_type) ==
    LET doc_type == lower(document_type)
    IN  IF Contains(<<"b","o","o","k">>, doc_type) THEN <<"B","O","O","K">>
        ELSE IF Contains(<<"t","h","e","s","i","s">>, doc_type) THEN <<"T","H","E","S">>
        ELSE IF Contains(<<"d","i","s","s","e","r","t","a","t","i","o","n">>, doc_type) THEN <<"T","H","E","S">>
        ELSE IF Contains(<<"c","o","n","f","e","r","e","n","c","e">>, doc_type) THEN <<"C","O","N","F">>
        ELSE <<"J","O","U","R">>

\* f"{tag}  - {value}" if the value is truthy, else nothing appended
IfTruthy(tag, value) == IF value # <<>> THEN <<tag \o <<" "," ","-"," ">> \o value>> ELSE <<>>

\* The list `entry` of one row when the loop body reaches line 702.
ris_entry(row) ==
    << <<"T","Y"," "," ","-"," ">> \o ris_type_code(row.document_type),
       <<"T","I"," "," ","-"," ">> \o row.title,
       IF notna(row.year) THEN <<"P","Y"," "," ","-"," ">> \o str(row.year) ELSE <<>>,
       <<"U","R"," "," ","-"," ">> \o row.url,
       <<"A","B"," "," ","-"," ">> \o row.abstract >>
    \o (IF row.authors # <<>>
        THEN LET authors == split_on(<<","," ">>, row.authors, <<>>)
             IN  [k \in DOMAIN authors |-> <<"A","U"," "," ","-"," ">> \o authors[k]]
        ELSE <<>>)
    \o IfTruthy(<<"J","O">>, row.journal)
    \o IfTruthy(<<"P","B">>, row.publisher)
    \o IfTruthy(<<"V","L">>, row.volume)
    \o IfTruthy(<<"I","S">>, row.issue)
    \o IfTruthy(<<"S","P">>, row.pages)
    \o IfTruthy(<<"D","O">>, row.doi)
    \o << <<"E","R"," "," ","-"," ">>, <<>> >>

\* '\n'.join(filter(None, entry))
ris_entry_text(row) == join(NL, filter_None(ris_entry(row)))

export_to_endnote(df) == join(NL, [k \in DOMAIN df |-> ris_entry_text(df[k])])

\* The printable ASCII characters in code point order: 32 (the space) to
\* 95, and 97 to 126.
AsciiFrom32 ==
    <<" ","!","\"","#","$","%","&","'","(",")","*","+",",","-",".","/","0","1","2","3","4","5","6","7","8","9",":",";","<","=",">","?","@","A","B","C","D","E","F","G","H","I","J","K","L","M","N","O","P","Q","R","S","T","U","V","W","X","Y","Z","[","\\","]","^","_">>

AsciiFrom97 ==
    <<"a","b","c","d","e","f","g","h","i","j","k","l","m","n","o","p","q","r","s","t","u","v","w","x","y","z","{","|","}","~">>

\* ord(c)
ord(c) ==
    IF c = "\n" THEN 10
    ELSE IF \E i \in DOMAIN AsciiFrom32 : AsciiFrom32[i] = c
    THEN 31 + (CHOOSE i \in DOMAIN AsciiFrom32 : AsciiFrom32[i] = c)
    ELSE 96 + (CHOOSE i \in DOMAIN AsciiFrom97 : AsciiFrom97[i] = c)

\* a < b of two str: the first differing code point decides, and a proper
\* prefix is the smaller.
StrLess(a, b) ==
    \E i \in 1..(Len(b)) :
        /\ i <= Len(a) + 1
        /\ SubSeq(a, 1, i - 1) = SubSeq(b, 1, i - 1)
        /\ i > Len(a) \/ ord(a[i]) < ord(b[i])

\* The names of the fields an entry may hold, as sorted(entry) orders them,
\* each with its text.
BibFields ==
    << <<"abstract", <<"a","b","s","t","r","a","c","t">>>>, <<"author", <<"a","u","t","h","o","r">>>>, <<"doi", <<"d","o","i">>>>,
       <<"isbn", <<"i","s","b","n">>>>, <<"journal", <<"j","o","u","r","n","a","l">>>>, <<"number", <<"n","u","m","b","e","r">>>>,
       <<"pages", <<"p","a","g","e","s">>>>, <<"publisher", <<"p","u","b","l","i","s","h","e","r">>>>,
       <<"school", <<"s","c","h","o","o","l">>>>, <<"title", <<"t","i","t","l","e">>>>, <<"url", <<"u","r","l">>>>,
       <<"volume", <<"v","o","l","u","m","e">>>>, <<"year", <<"y","e","a","r">>>> >>

\* The dict `entry` of one row at line 647: has holds its keys besides ID
\* and ENTRYTYPE, val their values.
bib_entry(row) ==
    LET doc_type == lower(row.document_type)
        book == Contains(<<"b","o","o","k">>, doc_type)
        thesis == ~book /\ (Contains(<<"t","h","e","s","i","s">>, doc_type)
                              \/ Contains(<<"d","i","s","s","e","r","t","a","t","i","o","n">>, doc_type))
        article == ~book /\ ~thesis
        If(cond, name, value) == IF cond /\ value # <<>> THEN {name} ELSE {}
    IN  [ID |-> row.bibtex_key,
         ENTRYTYPE |->
             IF book THEN <<"b","o","o","k">>
             ELSE IF thesis
             THEN (IF Contains(<<"d","i","s","s","e","r","t","a","t","i","o","n">>, doc_type) THEN <<"p","h","d","t","h","e","s","i","s">>
                   ELSE <<"m","a","s","t","e","r","s","t","h","e","s","i","s">>)
             ELSE <<"a","r","t","i","c","l","e">>,
         has |-> {"title", "author", "year", "url", "abstract"}
                     \cup If(book, "publisher", row.publisher)
                     \cup If(book, "isbn", row.isbn)
                     \cup If(thesis, "school", row.publisher)
                     \cup If(article, "journal", row.journal)
                     \cup If(article, "volume", row.volume)
                     \cup If(article, "number", row.issue)
                     \cup If(article, "pages", row.pages)
                     \cup If(TRUE, "doi", row.doi),
         val |-> [title |-> row.title, author |-> row.authors,
                  year |-> IF notna(row.year) THEN str(row.year) ELSE <<>>,
                  url |-> row.url, abstract |-> row.abstract,
                  publisher |-> row.publisher, isbn |-> row.isbn,
                  school |-> row.publisher, journal |-> row.journal,
                  volume |-> row.volume, number |-> row.issue, pages |-> row.pages,
                  doi |-> row.doi]]

\* BibTexWriter._entry_to_bibtex with the writer's defaults: the fields in
\* alphabetical order, one per line, indented by one space, every value in
\* braces (an empty one too), and a blank line after the entry.
RECURSIVE bib_fields_text(_, _)
bib_fields_text(entry, k) ==
    IF k > Len(BibFields) THEN <<>>
    ELSE (IF BibFields[k][1] \in entry.has
          THEN <<",">> \o NL \o <<" ">> \o BibFields[k][2] \o <<" ","="," ","{">>
                   \o entry.val[BibFields[k][1]] \o <<"}">>
          ELSE <<>>)
         \o bib_fields_text(entry, k + 1)

entry_to_bibtex(entry) ==
    <<"@">> \o entry.ENTRYTYPE \o <<"{">> \o entry.ID \o bib_fields_text(entry, 1)
        \o NL \o <<"}">> \o NL \o NL

\* sorted(entries, key=entry_sort_key) with order_entries_by = ('ID',), the
\* writer's default: by the lowercase ID, and stable.
entries_sorted_by_id(entries) ==
    LET Before(j, k) ==
            \/ StrLess(lower(entries[j].ID), lower(entries[k].ID))
            \/ lower(entries[j].ID) = lower(entries[k].ID) /\ j < k
        Rank(k) == 1 + Cardinality({j \in DOMAIN entries : Before(j, k)})
    IN  [r \in DOMAIN entries |-> entries[CHOOSE k \in DOMAIN entries : Rank(k) = r]]

\* writer.write(bib_db): the database holds entries only.
BibTexWriter_write(entries) ==
    LET sorted == entries_sorted_by_id(entries)
    IN  join(<<>>, [k \in DOMAIN sorted |-> entry_to_bibtex(sorted[k])])

export_to_bibtex(df) == BibTexWriter_write([k \in DOMAIN df |-> bib_entry(df[k])])

\* type_mapping.get(doc_type, doc_type): a type the table does not hold is
\* handed on as the Item Type.
zotero_type_or_doc_type(doc_type) ==
    CASE doc_type = ResearchArticle -> <<"j","o","u","r","n","a","l","A","r","t","i","c","l","e">>
      [] doc_type = Book -> <<"b","o","o","k">>
      [] doc_type = BookChapter -> <<"b","o","o","k","S","e","c","t","i","o","n">>
      [] doc_type = ConferencePaper -> <<"c","o","n","f","e","r","e","n","c","e","P","a","p","e","r">>
      [] doc_type = Thesis -> <<"t","h","e","s","i","s">>
      [] doc_type = Dissertation -> <<"t","h","e","s","i","s">>
      [] doc_type = Preprint -> <<"p","r","e","p","r","i","n","t">>
      [] doc_type = TechnicalReport -> <<"r","e","p","o","r","t">>
      [] OTHER -> doc_type

\* type_mapping.get(doc_type, 'journalArticle') of lines 714-725
zotero_type(doc_type) ==
    CASE doc_type = ResearchArticle -> <<"j","o","u","r","n","a","l","A","r","t","i","c","l","e">>
      [] doc_type = Book -> <<"b","o","o","k">>
      [] doc_type = BookChapter -> <<"b","o","o","k","S","e","c","t","i","o","n">>
      [] doc_type = ConferencePaper -> <<"c","o","n","f","e","r","e","n","c","e","P","a","p","e","r">>
      [] doc_type = Thesis -> <<"t","h","e","s","i","s">>
      [] doc_type = Dissertation -> <<"t","h","e","s","i","s">>
      [] doc_type = Preprint -> <<"p","r","e","p","r","i","n","t">>
      [] doc_type = TechnicalReport -> <<"r","e","p","o","r","t">>
      [] OTHER -> <<"j","o","u","r","n","a","l","A","r","t","i","c","l","e">>

ZoteroColumns ==
    << <<"I","t","e","m"," ","T","y","p","e">>, <<"T","i","t","l","e">>, <<"A","u","t","h","o","r">>, <<"Y","e","a","r">>, <<"U","R","L">>, <<"A","b","s","t","r","a","c","t">>, <<"D","O","I">>,
       <<"P","u","b","l","i","c","a","t","i","o","n"," ","T","i","t","l","e">>, <<"P","u","b","l","i","s","h","e","r">>, <<"V","o","l","u","m","e">>, <<"I","s","s","u","e">>, <<"P","a","g","e","s">>, <<"I","S","B","N">>,
       <<"D","a","t","e"," ","A","d","d","e","d">>, <<"M","a","n","u","a","l"," ","T","a","g","s">> >>

\* The values of the dict zotero_entry, in the order of its keys, as to_csv
\* writes them: a str as it is, a number by str().
zotero_entry(row) ==
    << zotero_type(row.document_type), row.title, row.authors,
       IF notna(row.year) THEN str(row.year) ELSE <<>>,
       row.url, row.abstract, row.doi, row.journal, row.publisher, row.volume,
       row.issue, row.pages, row.isbn, row.date_added,
       <<"t","i","m","e"," ","s","e","r","i","e","s",";"," ","q","u","a","n","t","i","t","a","t","i","v","e"," ","a","n","a","l","y","s","i","s">> >>

\* A field as csv.writer writes it under QUOTE_MINIMAL: in double quotes,
\* each of its own doubled, when it holds the delimiter, a quote, or a line
\* break.
csv_field(value) ==
    LET special == \E k \in DOMAIN value : value[k] \in {",", "\"", "\n", "\r"}
        Doubled(k) == IF value[k] = "\"" THEN <<"\"", "\"">> ELSE <<value[k]>>
    IN  IF special
        THEN <<"\"">> \o join(<<>>, [k \in DOMAIN value |-> Doubled(k)]) \o <<"\"">>
        ELSE value

csv_line(values) == join(<<",">>, [k \in DOMAIN values |-> csv_field(values[k])]) \o NL

\* zotero_df.to_csv(index=False): the header, then one record per row
export_to_zotero_csv(df) ==
    csv_line(ZoteroColumns)
        \o join(<<>>, [k \in DOMAIN df |-> csv_line(zotero_entry(df[k]))])

\* A call of an exporter: df_after is the caller's frame when the call has
\* returned.  iterrows hands the loop a copy of each row and no statement of
\* an exporter assigns to df or to a row.
Exported(fn, df, text) == [fn |-> fn, df |-> df, df_after |-> df, result |-> text]

InitExport == Idle /\ call = NoCall /\ store = <<>> /\ batch = <<>>

CallExportToEndnote ==
    /\ call = NoCall
    /\ \E df \in DataFrames :
           call' = Exported("export_to_endnote", df, export_to_endnote(df))
    /\ ParserIdle

CallExportToBibtex ==
    /\ call = NoCall
    /\ \E df \in DataFrames :
           call' = Exported("export_to_bibtex", df, export_to_bibtex(df))
    /\ ParserIdle

CallExportToZoteroCsv ==
    /\ call = NoCall
    /\ \E df \in DataFrames :
           call' = Exported("export_to_zotero_csv", df, export_to_zotero_csv(df))
    /\ ParserIdle

NextExport ==
    \/ CallExportToBibtex
    \/ CallExportToEndnote
    \/ CallExportToZoteroCsv

SpecExport == InitExport /\ [][NextExport]_vars

-----------------------------------------------------------------------------
(* C1 *)

\* C1: every call of the relevance scorer returns, and returns a score in
\* [0,1]; a text containing "time series" scores at least 0.3; an empty title
\* with an empty abstract scores exactly 0.
C1_ScorerTotalAndBounded ==
    call.fn = "_calculate_relevance" =>
        /\ call.result.exc = ""
        /\ call.result.val \in 0..100
        /\ Contains(<<"t","i","m","e"," ","s","e","r","i","e","s">>, lower(Fmt2(call.title, call.abstract)))
               => call.result.val >= 30
        /\ (call.title = <<>> /\ call.abstract = <<>>) => call.result.val = 0

-----------------------------------------------------------------------------
(* C2 *)

\* C2: when a parser has returned, the candidates it accepted are exactly
\* those that meet their source's gate (relevance above 0.1 with a non-empty,
\* non-default title, and a license for CrossRef; relevance above 0.3 for
\* Internet Archive and NDLTD), and each of them is a record of the output.
C2_GateDecidesOutput ==
    Finished =>
        /\ \A k \in DOMAIN payload.entries :
               (k \in DOMAIN trace /\ trace[k] = "accepted")
                   <=> MeetsGate(source, payload.entries[k])
        /\ result.kind = "list"
        /\ Len(result.books)
               = Cardinality({k \in DOMAIN payload.entries :
                                  MeetsGate(source, payload.entries[k])})

-----------------------------------------------------------------------------
(* C3 *)

\* C3: a CrossRef item whose license list is empty or missing (item.get
\* reads both as []) is never accepted: no iteration over such an item
\* appends to books, and the gate is false for it at every relevance score.
C3_NoLicenseNoRecord ==
    source = CrossRef =>
        \A k \in DOMAIN trace :
            LET item == payload.entries[k]
            IN  (item.isdict /\ item.license = <<>>) =>
                    /\ trace[k] # "accepted"
                    /\ \A relevance \in 0..100 :
                           ~crossref_gate(Len(item.license) > 0, relevance,
                                          crossref_title(item.title))

\* A returned CrossRef pass over an item without a license whose title and
\* relevance alone would pass the gate.
C3_Witness ==
    /\ Finished /\ source = CrossRef
    /\ \E k \in DOMAIN trace :
           LET item == payload.entries[k]
           IN  /\ item.isdict /\ item.license = <<>>
               /\ crossref_title(item.title) \notin {<<>>, NoTitle}
               /\ relevance_of(CrossRef, item) > 10
               /\ trace[k] # "accepted"

-----------------------------------------------------------------------------
(* C4 *)

\* The candidate's title is empty, or only whitespace.
EmptyTitle(src, c) ==
    CASE src = arXiv -> c.title.found /\ c.title.text.ty = "str" /\ strip(c.title.text.s) = <<>>
      [] src = CrossRef -> c.isdict /\ c.title # <<>> /\ split(c.title[1]) = <<>>
      [] src = InternetArchive -> c.isdict /\ strip(c.title) = <<>>
      [] src = NDLTD ->
             /\ c.isdict
             /\ \/ c.title.ty = "str" /\ strip(c.title.s) = <<>>
                \/ c.title.ty = "list" /\ c.title.l # <<>> /\ strip(c.title.l[1].s) = <<>>

-----------------------------------------------------------------------------
(* C5 *)

C5_ThesisWords ==
    { <<"t","h","e","s","i","s">>, <<"d","i","s","s","e","r","t","a","t","i","o","n">>, <<"p","h","d">>, <<"m","a","s","t","e","r">>, <<"d","o","c","t","o","r","a","l">>, <<"g","r","a","d","u","a","t","e">> }

C5_DoctoralWords == { <<"p","h","d">>, <<"d","o","c","t","o","r","a","l">>, <<"d","o","c","t","o","r">> }

\* C5: when the lowercase text title + " " + abstract contains a thesis
\* keyword, classify returns Dissertation if it also contains phd, doctoral
\* or doctor and Thesis otherwise, whatever the source, the native type code
\* and the Book keywords in it; "PhD Dissertation on ARIMA" is a Dissertation.
C5_ThesisRuleFirst ==
    call.fn = "_classify_document_type" =>
        LET text == lower(call.title \o <<" ">> \o call.abstract)
        IN  /\ (\E w \in C5_ThesisWords : Contains(w, text)) =>
                   call.result = IF \E w \in C5_DoctoralWords : Contains(w, text)
                                 THEN Dissertation ELSE Thesis
            /\ call.title = <<"P","h","D"," ","D","i","s","s","e","r","t","a","t","i","o","n"," ","o","n"," ","A","R","I","M","A">> => call.result = Dissertation

\* "PhD Dissertation on ARIMA" classified for Internet Archive, with a Book
\* keyword in the abstract and the native type code book.
C5_Witness ==
    /\ call.fn = "_classify_document_type"
    /\ call.title = <<"P","h","D"," ","D","i","s","s","e","r","t","a","t","i","o","n"," ","o","n"," ","A","R","I","M","A">>
    /\ call.abstract = <<"a","n"," ","i","n","t","r","o","d","u","c","t","i","o","n"," ","t","o"," ","f","o","r","e","c","a","s","t","i","n","g">>
    /\ call.source = InternetArchive
    /\ call.crossref_type = <<"b","o","o","k">>
    /\ call.result = Dissertation

-----------------------------------------------------------------------------
(* C6 *)

\* The maximal runs of letters of s, in order: acc is the run being read.
RECURSIVE LetterRuns(_, _)
LetterRuns(s, acc) ==
    LET done == IF acc = <<>> THEN <<>> ELSE <<acc>>
    IN  IF s = <<>> THEN done
        ELSE IF IsAsciiAlpha(Head(s)) THEN LetterRuns(Tail(s), Append(acc, Head(s)))
        ELSE done \o LetterRuns(Tail(s), <<>>)

C6_Surname(first_author) ==
    SelectSeq(split(first_author)[Len(split(first_author))], IsAsciiAlpha)

C6_Year(year) == IF year = None THEN Unknown ELSE IntToStr(year.i)

C6_TitleWord(title) ==
    LET AtLeastThree(w) == Len(w) >= 3
        runs == SelectSeq(LetterRuns(title, <<>>), AtLeastThree)
    IN  IF runs # <<>> THEN runs[1] ELSE <<"T","i","t","l","e">>

\* C6: the key is the surname (the letters of the last whitespace-delimited
\* token of firstAuthor), then the year as its decimal string, or "Unknown"
\* when the year is absent, then the first alphabetic run of three or more
\* letters of the title, or "Title"; ("Jane Doe", 2020, "Advances in
\* Forecasting") gives "Doe2020Advances".
C6_KeyIsSurnameYearWord ==
    (call.fn = "_generate_bibtex_key" /\ split(call.first_author) # <<>>) =>
        /\ call.result = C6_Surname(call.first_author) \o C6_Year(call.year)
                             \o C6_TitleWord(call.title)
        /\ (/\ call.first_author = <<"J","a","n","e"," ","D","o","e">>
            /\ call.year = PyInt(2020)
            /\ call.title = <<"A","d","v","a","n","c","e","s"," ","i","n"," ","F","o","r","e","c","a","s","t","i","n","g">>)
               => call.result = <<"D","o","e","2","0","2","0","A","d","v","a","n","c","e","s">>

-----------------------------------------------------------------------------
(* C7 *)

SameKey(a, b) == a.title = b.title /\ a.source = b.source

SameFields(row, book) ==
    /\ row.title = book.title /\ row.authors = book.authors /\ row.year = book.year
    /\ row.source = book.source /\ row.abstract = book.abstract
    /\ row.license_type = book.license_type
    /\ row.relevance_score = book.relevance_score
    /\ row.document_type = book.document_type /\ row.bibtex_key = book.bibtex_key

\* One save_to_database call: the rows there before are kept as they were,
\* at most one row holds each (title, source), each record of the batch has
\* a row with its (title, source), and such a row that is new holds the
\* fields of the first record of the batch with that (title, source).
C7_SaveStep ==
    /\ Len(store') >= Len(store)
    /\ SubSeq(store', 1, Len(store)) = store
    /\ \A i, j \in DOMAIN store' : SameKey(store'[i], store'[j]) => i = j
    /\ \A k \in DOMAIN batch' :
           \E i \in DOMAIN store' :
               /\ SameKey(store'[i], batch'[k])
               /\ i > Len(store) =>
                      LET first == CHOOSE m \in DOMAIN batch' :
                                       /\ SameKey(batch'[m], batch'[k])
                                       /\ \A n \in 1..(m - 1) :
                                              ~SameKey(batch'[n], batch'[k])
                      IN  SameFields(store'[i], batch'[first])
    /\ \A i \in (Len(store) + 1)..Len(store') :
           \E k \in DOMAIN batch' : SameKey(store'[i], batch'[k])

\* C7: after any sequence of save_to_database calls the table holds at most
\* one row per (title, source), the first one saved; a later record with the
\* same (title, source) changes nothing, and records that differ in title or
\* in source are both stored.
C7_OneRowPerTitleAndSource == [][C7_SaveStep]_vars

\* A batch that holds the same (title, source) twice with different authors,
\* and a record of another source with the same title: the table holds the
\* first of the two and the record of the other source.
C7_Witness ==
    /\ Len(batch) = 2 /\ SameKey(batch[1], batch[2]) /\ batch[1].authors # batch[2].authors
    /\ Len(store) = 2
    /\ store[1].title = store[2].title /\ store[1].source # store[2].source
    /\ \E i \in DOMAIN store : SameFields(store[i], batch[1])

-----------------------------------------------------------------------------
(* C8 *)

\* C8: when a parser has returned, every candidate of the batch has been
\* iterated over, those whose extraction raised were skipped, and the output
\* is the gate-passing candidates whose extraction did not raise, in input
\* order.
C8_FailuresIsolated ==
    Finished =>
        /\ Len(trace) = Len(payload.entries)
        /\ \A k \in DOMAIN trace :
               fields_of(source, payload.entries[k]).exc # "" => trace[k] = "skipped"
        /\ result.kind = "list"
        /\ TitlesOf(result.books) = KeptTitles(source, payload.entries)

-----------------------------------------------------------------------------
(* C9 *)

\* C9: a search over a response that is not of the expected shape ends in
\* an error outcome, never in a returned list.
C9_MalformedSurfaced ==
    (pc = "returned" /\ payload.shape # "expected") => result.kind = "raised"

-----------------------------------------------------------------------------
(* C10 *)

\* The raw year of the candidate is there and int() cannot read it.
YearUnparseable(src, c) ==
    LET CannotRead(v) ==
            \/ v.ty = "str" /\ int(v).exc # ""
            \/ v.ty = "list" /\ v.l # <<>> /\ int(v.l[1]).exc # ""
    IN  CASE src = arXiv ->
                 /\ c.published.found /\ c.published.text.ty = "str"
                 /\ arxiv_year(c.published) = None
          [] src = CrossRef ->
                 /\ c.isdict /\ c.published.found /\ c.published.parts # <<>>
                 /\ c.published.parts[1] # <<>>
                 /\ int(c.published.parts[1][1]).exc # ""
          [] OTHER -> c.isdict /\ CannotRead(c.year)

\* The candidate with its year taken away.
WithoutYear(src, c) ==
    CASE src = arXiv -> [c EXCEPT !.published = NoElem]
      [] src = CrossRef -> [c EXCEPT !.published = NotPublished]
      [] OTHER -> [c EXCEPT !.year = None]

\* C10: when a parser has returned, the year of every record is None or an
\* int, and a candidate whose year cannot be parsed, and that meets the gate
\* otherwise, is a record of the output with its year absent.
C10_YearIntOrAbsent ==
    Finished =>
        /\ \A j \in DOMAIN result.books : result.books[j].year.ty \in {"NoneType", "int"}
        /\ \A k \in DOMAIN payload.entries :
               LET c == payload.entries[k]
               IN  (YearUnparseable(source, c) /\ MeetsGate(source, WithoutYear(source, c)))
                       => \E j \in DOMAIN result.books :
                              /\ result.books[j].title
                                     = fields_of(source, WithoutYear(source, c)).title
                              /\ result.books[j].year = None

-----------------------------------------------------------------------------
(* C11 *)

C11_Labels ==
    { <<"B","o","o","k">>, <<"T","h","e","s","i","s">>, <<"D","i","s","s","e","r","t","a","t","i","o","n">>, <<"R","e","s","e","a","r","c","h"," ","A","r","t","i","c","l","e">>, <<"P","r","e","p","r","i","n","t">>,
      <<"C","o","n","f","e","r","e","n","c","e"," ","P","a","p","e","r">>, <<"T","e","c","h","n","i","c","a","l"," ","R","e","p","o","r","t">>, <<"B","o","o","k"," ","C","h","a","p","t","e","r">>,
      <<"U","n","d","e","r","g","r","a","d","u","a","t","e"," ","T","h","e","s","i","s">> }

\* C11: every call of _classify_document_type and of _classify_thesis_type
\* returns one of the nine enumerated labels, whatever the title, abstract,
\* source, native type code and degree string, empty strings included.
C11_LabelEnumerated ==
    call.fn \in {"_classify_document_type", "_classify_thesis_type"} =>
        call.result \in C11_Labels

\* Empty title and abstract with a type code the table does not hold: the
\* label is the table's default.
C11_Witness ==
    /\ call.fn = "_classify_document_type"
    /\ call.title = <<>> /\ call.abstract = <<>>
    /\ call.source = CrossRef
    /\ call.crossref_type = <<"p","o","s","t","e","d","-","c","o","n","t","e","n","t">>
    /\ call.result = <<"R","e","s","e","a","r","c","h"," ","A","r","t","i","c","l","e">>

-----------------------------------------------------------------------------
(* C16 *)

\* The sum of the weights (in tenths) of the table phrases among ks that
\* occur in text, each counted once.
RECURSIVE C16_Sum(_, _)
C16_Sum(ks, text) ==
    IF ks = {} THEN 0
    ELSE LET k == CHOOSE x \in ks : TRUE
         IN  (IF Contains(keywords[k][1], text) THEN keywords[k][2] ELSE 0)
             + C16_Sum(ks \ {k}, text)

C16_Score(title, abstract) ==
    LET S == C16_Sum(DOMAIN keywords, lower(title \o <<" ">> \o abstract))
    IN  IF S <= 100 THEN S ELSE 100

\* C16: score(title, abstract) is min(S/10.0, 1.0), S being the sum of the
\* weights of the phrases of the 14-entry table that occur in
\* lowercase(title + " " + abstract), each once; and the score of the text
\* with a further table phrase added to it is no lower.
C16_ScoreIsCappedWeightSum ==
    call.fn = "_calculate_relevance" =>
        /\ Len(keywords) = 14
        /\ call.result.exc = ""
        /\ call.result.val = C16_Score(call.title, call.abstract)
        /\ \A k \in DOMAIN keywords :
               LET more == _calculate_relevance(call.title,
                               call.abstract \o <<" ">> \o keywords[k][1])
               IN  more.exc = "" /\ more.val >= call.result.val

-----------------------------------------------------------------------------
(* C17 *)

C17_ThesisWords ==
    { <<"t","h","e","s","i","s">>, <<"d","i","s","s","e","r","t","a","t","i","o","n">>, <<"p","h","d">>, <<"m","a","s","t","e","r">>, <<"d","o","c","t","o","r","a","l">>, <<"g","r","a","d","u","a","t","e">> }

C17_BookWords ==
    { <<"h","a","n","d","b","o","o","k">>, <<"t","e","x","t","b","o","o","k">>, <<"m","a","n","u","a","l">>, <<"g","u","i","d","e">>, <<"i","n","t","r","o","d","u","c","t","i","o","n"," ","t","o">>,
      <<"p","r","i","n","c","i","p","l","e","s"," ","o","f">> }

C17_Table(code) ==
    CASE code = <<"j","o","u","r","n","a","l","-","a","r","t","i","c","l","e">> -> <<"R","e","s","e","a","r","c","h"," ","A","r","t","i","c","l","e">>
      [] code = <<"b","o","o","k">> -> <<"B","o","o","k">>
      [] code = <<"b","o","o","k","-","c","h","a","p","t","e","r">> -> <<"B","o","o","k"," ","C","h","a","p","t","e","r">>
      [] code = <<"p","r","o","c","e","e","d","i","n","g","s","-","a","r","t","i","c","l","e">> -> <<"C","o","n","f","e","r","e","n","c","e"," ","P","a","p","e","r">>
      [] code = <<"d","i","s","s","e","r","t","a","t","i","o","n">> -> <<"D","i","s","s","e","r","t","a","t","i","o","n">>
      [] code = <<"r","e","p","o","r","t">> -> <<"T","e","c","h","n","i","c","a","l"," ","R","e","p","o","r","t">>
      [] OTHER -> <<"R","e","s","e","a","r","c","h"," ","A","r","t","i","c","l","e">>

\* C17: for a text with no thesis keyword, the result is Book when the source
\* is Internet Archive or the text holds a Book keyword (whatever the type
\* code, and for arXiv too); otherwise the table's label for a non-empty
\* type code; otherwise Preprint for arXiv; otherwise Research Article.
C17_RulesTwoToFive ==
    call.fn = "_classify_document_type" =>
        LET text == lower(call.title \o <<" ">> \o call.abstract)
        IN  (\A w \in C17_ThesisWords : ~Contains(w, text)) =>
                call.result =
                    IF \/ call.source = <<"I","n","t","e","r","n","e","t"," ","A","r","c","h","i","v","e">>
                       \/ \E w \in C17_BookWords : Contains(w, text)
                    THEN <<"B","o","o","k">>
                    ELSE IF call.crossref_type # <<>> THEN C17_Table(call.crossref_type)
                    ELSE IF call.source = <<"a","r","X","i","v">> THEN <<"P","r","e","p","r","i","n","t">>
                    ELSE <<"R","e","s","e","a","r","c","h"," ","A","r","t","i","c","l","e">>

\* An arXiv call with a type code and neither a thesis nor a Book keyword:
\* the code decides, not the source.
C17_Witness ==
    /\ call.fn = "_classify_document_type"
    /\ call.title = <<"A","R","I","M","A">> /\ call.abstract = <<>>
    /\ call.source = <<"a","r","X","i","v">>
    /\ call.crossref_type = <<"p","r","o","c","e","e","d","i","n","g","s","-","a","r","t","i","c","l","e">>
    /\ call.result = <<"C","o","n","f","e","r","e","n","c","e"," ","P","a","p","e","r">>

-----------------------------------------------------------------------------
(* C18 *)

\* C18: when the last whitespace-delimited token of firstAuthor holds no
\* letter, the key is "Unknown", then the year string, then the title word:
\* it does not start with the year string.
C18_EmptySurnameIsUnknown ==
    (/\ call.fn = "_generate_bibtex_key"
     /\ split(call.first_author) # <<>>
     /\ C6_Surname(call.first_author) = <<>>)
        => \E y \in {C6_Year(call.year), <<"U","n","k","n","o","w","n">>} :
               call.result = <<"U","n","k","n","o","w","n">> \o y \o C6_TitleWord(call.title)

-----------------------------------------------------------------------------
(* Reading a RIS text back: its lines, and its entries, the k-th entry     *)
(* running from the k-th TY line to the k-th ER line.                      *)

\* The pieces of text between the positions of the set at, in order: the
\* k-th piece runs from after the (k-1)-th position to before the k-th.
PiecesAt(text, at) ==
    LET Nth(k) == IF k = 0 THEN 0
                  ELSE IF k > Cardinality(at) THEN Len(text) + 1
                  ELSE CHOOSE i \in at : Cardinality({j \in at : j < i}) = k - 1
    IN  [k \in 1..(Cardinality(at) + 1) |-> SubSeq(text, Nth(k - 1) + 1, Nth(k) - 1)]

\* text.split('\n')
LinesOf(text) == PiecesAt(text, {i \in DOMAIN text : text[i] = "\n"})

HasPrefix(prefix, line) ==
    Len(line) >= Len(prefix) /\ SubSeq(line, 1, Len(prefix)) = prefix

\* The positions, in order, of the lines of ls that satisfy the test.
RECURSIVE PositionsFrom(_, _, _)
PositionsFrom(ls, k, tag) ==
    IF k > Len(ls) THEN <<>>
    ELSE (IF HasPrefix(tag, ls[k]) THEN <<k>> ELSE <<>>) \o PositionsFrom(ls, k + 1, tag)

RisTY(text) == PositionsFrom(LinesOf(text), 1, <<"T","Y"," "," ","-"," ">>)

RisER(text) == PositionsFrom(LinesOf(text), 1, <<"E","R"," "," ","-"," ">>)

\* The lines of the k-th entry, its TY and ER lines included.
RisEntry(text, k) == SubSeq(LinesOf(text), RisTY(text)[k], RisER(text)[k])

WellFormedRis(text, n) ==
    /\ Len(RisTY(text)) = n /\ Len(RisER(text)) = n
    /\ \A k \in 1..n : RisTY(text)[k] < RisER(text)[k]
    /\ \A k \in 1..(n - 1) : RisER(text)[k] < RisTY(text)[k + 1]

-----------------------------------------------------------------------------
(* Reading a BibTeX text back.  An entry starts at an @ outside braces and *)
(* ends at the brace that closes the one after its type; its body is the   *)
(* key and the fields, separated by the commas outside the braces of the   *)
(* values; a field is name = {value}.                                      *)

\* The braces open after position i of text.
BraceDepth(text, i) ==
    Cardinality({j \in 1..i : text[j] = "{"}) - Cardinality({j \in 1..i : text[j] = "}"})

Least(S) == CHOOSE i \in S : \A j \in S : i <= j

BibField(piece) ==
    LET eq == Least({i \in DOMAIN piece : piece[i] = "="})
        raw == strip(SubSeq(piece, eq + 1, Len(piece)))
    IN  [name |-> strip(SubSeq(piece, 1, eq - 1)),
         value |-> IF raw # <<>> /\ raw[1] = "{" /\ raw[Len(raw)] = "}"
                   THEN SubSeq(raw, 2, Len(raw) - 1) ELSE raw]

\* The entry that starts with the @ at position a of text.
BibEntryAt(text, a) ==
    LET open == Least({j \in (a + 1)..Len(text) : text[j] = "{"})
        close == Least({j \in (open + 1)..Len(text) : BraceDepth(text, j) = 0})
        body == SubSeq(text, open + 1, close - 1)
        pieces == PiecesAt(body, {i \in DOMAIN body :
                                      body[i] = "," /\ BraceDepth(body, i) = 0})
    IN  [ENTRYTYPE |-> lower(strip(SubSeq(text, a + 1, open - 1))),
         ID |-> strip(pieces[1]),
         fields |-> {BibField(pieces[k]) : k \in 2..Len(pieces)}]

\* The entries of text, in the order of the text.
BibRead(text) ==
    LET starts == {i \in DOMAIN text : text[i] = "@" /\ BraceDepth(text, i) = 0}
        Nth(k) == CHOOSE i \in starts : Cardinality({j \in starts : j < i}) = k - 1
    IN  [k \in 1..Cardinality(starts) |-> BibEntryAt(text, Nth(k))]

HasField(entry, name) == \E f \in entry.fields : f.name = name

FieldIs(entry, name, value) == [name |-> name, value |-> value] \in entry.fields

-----------------------------------------------------------------------------
(* Reading a CSV text back: a record ends at a newline outside quotes, a   *)
(* field at a comma outside quotes; a quoted field loses its quotes and    *)
(* has its doubled quotes halved.                                          *)

Quoted(text, i) == Cardinality({j \in 1..i : text[j] = "\""}) % 2 = 1

CsvUnquote(field) ==
    IF field # <<>> /\ field[1] = "\""
    THEN LET inner == SubSeq(field, 2, Len(field) - 1)
             Keep(k) == ~(inner[k] = "\"" /\ Quoted(inner, k) )
         IN  join(<<>>, [k \in DOMAIN inner |-> IF Keep(k) THEN <<inner[k]>> ELSE <<>>])
    ELSE field

CsvFields(record) ==
    LET pieces == PiecesAt(record, {i \in DOMAIN record :
                                        record[i] = "," /\ ~Quoted(record, i)})
    IN  [k \in DOMAIN pieces |-> CsvUnquote(pieces[k])]

\* The records of text, its header first; the text ends with a newline.
CsvRead(text) ==
    LET pieces == PiecesAt(text, {i \in DOMAIN text :
                                      text[i] = "\n" /\ ~Quoted(text, i)})
    IN  [k \in 1..(Len(pieces) - 1) |-> CsvFields(pieces[k])]

-----------------------------------------------------------------------------
(* C12 *)

C12_Family(document_type) ==
    LET d == lower(document_type)
    IN  IF Contains(<<"b","o","o","k">>, d) THEN <<"b","o","o","k">>
        ELSE IF Contains(<<"d","i","s","s","e","r","t","a","t","i","o","n">>, d) THEN <<"p","h","d","t","h","e","s","i","s">>
        ELSE IF Contains(<<"t","h","e","s","i","s">>, d) THEN <<"m","a","s","t","e","r","s","t","h","e","s","i","s">>
        ELSE <<"a","r","t","i","c","l","e">>

\* C12: the text export_to_bibtex returns, read back, holds for every record
\* an entry with the record's title and author string, with its year as the
\* decimal string of the integer (no year when the record has none), and
\* with the entry type of its family: book, phdthesis or mastersthesis,
\* article.
C12_BibtexRoundTrip ==
    call.fn = "export_to_bibtex" =>
        LET entries == BibRead(call.result)
        IN  /\ Len(entries) = Len(call.df)
            /\ \A k \in DOMAIN call.df :
                   \E j \in DOMAIN entries :
                       /\ entries[j].ID = call.df[k].bibtex_key
                       /\ FieldIs(entries[j], <<"t","i","t","l","e">>, call.df[k].title)
                       /\ FieldIs(entries[j], <<"a","u","t","h","o","r">>, call.df[k].authors)
                       /\ IF notna(call.df[k].year)
                          THEN FieldIs(entries[j], <<"y","e","a","r">>, IntToStr(call.df[k].year.i))
                          ELSE ~HasField(entries[j], <<"y","e","a","r">>)
                       /\ entries[j].ENTRYTYPE = C12_Family(call.df[k].document_type)

-----------------------------------------------------------------------------
(* C14 *)

C14_TitleOfRisEntry(entry) ==
    LET IsTI(l) == HasPrefix(<<"T","I"," "," ","-"," ">>, l)
        ti == SelectSeq(entry, IsTI)
    IN  SubSeq(ti[1], 7, Len(ti[1]))

\* The titles of the entries of the text an exporter returned, in the order
\* of the text.
C14_Titles(fn, text) ==
    CASE fn = "export_to_bibtex" ->
             LET entries == BibRead(text)
                 Title(e) == (CHOOSE f \in e.fields : f.name = <<"t","i","t","l","e">>).value
             IN  [k \in DOMAIN entries |-> Title(entries[k])]
      [] fn = "export_to_endnote" ->
             [k \in DOMAIN RisTY(text) |-> C14_TitleOfRisEntry(RisEntry(text, k))]
      [] fn = "export_to_zotero_csv" ->
             LET records == CsvRead(text)
             IN  [k \in 1..(Len(records) - 1) |-> records[k + 1][2]]

\* C14: every exporter emits one entry per row of its input, in the order of
\* the rows, and the input has the same rows in the same order afterwards.
C14_OneEntryPerRowInOrder ==
    call.fn \in {"export_to_bibtex", "export_to_endnote", "export_to_zotero_csv"} =>
        /\ call.df_after = call.df
        /\ C14_Titles(call.fn, call.result) = [k \in DOMAIN call.df |-> call.df[k].title]

-----------------------------------------------------------------------------
(* C15 *)

C15_ItemType(document_type) ==
    CASE document_type = <<"R","e","s","e","a","r","c","h"," ","A","r","t","i","c","l","e">> -> <<"j","o","u","r","n","a","l","A","r","t","i","c","l","e">>
      [] document_type = <<"B","o","o","k">> -> <<"b","o","o","k">>
      [] document_type = <<"B","o","o","k"," ","C","h","a","p","t","e","r">> -> <<"b","o","o","k","S","e","c","t","i","o","n">>
      [] document_type = <<"C","o","n","f","e","r","e","n","c","e"," ","P","a","p","e","r">> -> <<"c","o","n","f","e","r","e","n","c","e","P","a","p","e","r">>
      [] document_type = <<"T","h","e","s","i","s">> -> <<"t","h","e","s","i","s">>
      [] document_type = <<"D","i","s","s","e","r","t","a","t","i","o","n">> -> <<"t","h","e","s","i","s">>
      [] document_type = <<"P","r","e","p","r","i","n","t">> -> <<"p","r","e","p","r","i","n","t">>
      [] document_type = <<"T","e","c","h","n","i","c","a","l"," ","R","e","p","o","r","t">> -> <<"r","e","p","o","r","t">>
      [] OTHER -> <<"j","o","u","r","n","a","l","A","r","t","i","c","l","e">>

\* C15: the Item Type of the CSV record of a row is the fixed function of
\* its document_type: the eight table entries, and journalArticle for every
\* other value, Undergraduate Thesis included.
C15_ItemTypeByDocumentType ==
    call.fn = "export_to_zotero_csv" =>
        LET records == CsvRead(call.result)
        IN  /\ Len(records) = Len(call.df) + 1
            /\ records[1][1] = <<"I","t","e","m"," ","T","y","p","e">>
            /\ \A k \in DOMAIN call.df :
                   records[k + 1][1] = C15_ItemType(call.df[k].document_type)

\* A Dissertation with a two-paragraph abstract followed by an Undergraduate
\* Thesis: the records read thesis and journalArticle.
C15_Witness ==
    /\ call.fn = "export_to_zotero_csv"
    /\ Len(call.df) = 2
    /\ call.df[1].document_type = <<"D","i","s","s","e","r","t","a","t","i","o","n">>
    /\ call.df[2].document_type = <<"U","n","d","e","r","g","r","a","d","u","a","t","e"," ","T","h","e","s","i","s">>
    /\ CsvRead(call.result)[2][1] = <<"t","h","e","s","i","s">>
    /\ CsvRead(call.result)[3][1] = <<"j","o","u","r","n","a","l","A","r","t","i","c","l","e">>

-----------------------------------------------------------------------------
(* C13 *)

C13_OptionalTags == { <<"P","Y">>, <<"J","O">>, <<"P","B">>, <<"V","L">>, <<"I","S">>, <<"S","P">>, <<"D","O">> }

C13_NoPYForAbsentYear ==
    \A k \in DOMAIN call.df :
        ~notna(call.df[k].year) =>
            \A j \in DOMAIN RisEntry(call.result, k) :
                ~HasPrefix(<<"P","Y">>, RisEntry(call.result, k)[j])

C13_NoBlankLineInEntry ==
    \A k \in DOMAIN call.df :
        \A j \in DOMAIN RisEntry(call.result, k) : RisEntry(call.result, k)[j] # <<>>

C13_NoEmptyOptionalTag ==
    \A j \in DOMAIN LinesOf(call.result) :
        \A tag \in C13_OptionalTags :
            rstrip(LinesOf(call.result)[j]) # tag \o <<" "," ","-">>

\* C13: in the output of export_to_endnote the entry of a record whose year
\* is absent has no PY line, no entry has a blank line between its TY line
\* and its ER line, and no PY, JO, PB, VL, IS, SP or DO tag is emitted
\* without a value.
C13_EmptyLinesOmitted ==
    call.fn = "export_to_endnote" =>
        /\ WellFormedRis(call.result, Len(call.df))
        /\ C13_NoPYForAbsentYear
        /\ C13_NoBlankLineInEntry
        /\ C13_NoEmptyOptionalTag

-----------------------------------------------------------------------------
(* C19 *)

\* C19: in the output of export_to_endnote every ER line is followed by a
\* blank line, so the ER line of an entry is never immediately followed by
\* the TY line of the next.
C19_BlankLineAfterER ==
    call.fn = "export_to_endnote" =>
        LET ls == LinesOf(call.result)
        IN  \A k \in DOMAIN ls :
                ls[k] = <<"E","R"," "," ","-"," ">> =>
                    /\ k < Len(ls) /\ ls[k + 1] = <<>>
                    /\ ~(k < Len(ls) /\ HasPrefix(<<"T","Y"," "," ","-"," ">>, ls[k + 1]))

-----------------------------------------------------------------------------
(* C20 *)

\* Ordered author lists, as a parser holds them before joining them.
C20_AuthorLists ==
    { << <<"J","a","n","e"," ","D","o","e">>, <<"W","e","i"," ","L","i">> >>, << <<"S","m","i","t","h",","," ","A","n","n">> >>, << <<"A","n","n"," ","L","e","e">> >>,
      << <<"B","o"," ","C","h","e","n">> >> }

C20_AULines(entry) ==
    LET IsAU(l) == HasPrefix(<<"A","U"," "," ","-"," ">>, l)
        au == SelectSeq(entry, IsAU)
    IN  [k \in DOMAIN au |-> SubSeq(au[k], 7, Len(au[k]))]

\* C20: the entry of a record whose authors string is a non-empty author
\* list joined with ", " has one AU line per author of the list, in order,
\* each with that author's name, also when a name holds ", ".
C20_OneAUPerAuthor ==
    call.fn = "export_to_endnote" =>
        \A k \in DOMAIN call.df :
            \A authors \in C20_AuthorLists :
                call.df[k].authors = join(<<","," ">>, authors)
                    => /\ k <= Len(RisTY(call.result)) /\ k <= Len(RisER(call.result))
                       /\ C20_AULines(RisEntry(call.result, k)) = authors

-----------------------------------------------------------------------------
(* C21 *)

\* The payloads whose top level _parse_ndltd_response cannot read: data.get
\* or the for statement raises, and the parser has no handler around them.
C21_NdltdUnreadable ==
    source = NDLTD /\ payload.shape \in {"not_dict", "items_not_list"}

=============================================================================
